---- MODULE Spec2Model ----
(***************************************************************************)
(* A model of yourfun.proof.ProofGenerator (src/sdk-python/yourfun/        *)
(* proof.py): the behavioural event recorder, the metrics aggregator, the  *)
(* confidence scorer and the challenge solver.                             *)
(*                                                                         *)
(* Conventions                                                             *)
(*  - The byte buffers (bytes, bytearray) are functions on 0..n-1, so that *)
(*    the index arithmetic reads as in the source; PyLen is len().        *)
(*  - Python lists are sequences: xs[k] of the source is xs[k + 1] here,   *)
(*    xs[-1] is xs[Len(xs)].                                              *)
(*  - What an operation returns is a tagged record: RetNone, RetVal(v) or  *)
(*    RetRaise(exception name).                                            *)
(*  - Python floats are modelled by exact rationals <<num, den>> (den > 0, *)
(*    lowest terms), with inf, -inf and nan beside them; the input samples *)
(*    are chosen so that every sqrt is taken of a perfect square.          *)
(*  - time.time() is a read of the wall clock, an input of the operation   *)
(*    that calls it.                                                       *)
(***************************************************************************)
EXTENDS Integers, Sequences, FiniteSets, TLC

VARIABLES
    events,            \* self._events
    session_start,     \* self._session_start (ms)
    instance,          \* which ProofGenerator object the state belongs to
    op,                \* the operation that ran last
    ret,               \* what it returned (or the exception it raised)
    nonce,             \* solve_challenge: argument nonce
    fingerprint_hash,  \* solve_challenge: argument fingerprint_hash
    result,            \* solve_challenge: local bytearray result
    pc,                \* solve_challenge: position ("idle" outside a call)
    i,                 \* solve_challenge: loop variable i
    round_num,         \* solve_challenge: loop variable round_num
    last_call,         \* the caller's record of the call that returned last
    session_duration,  \* is_ready: local session_duration (ms)
    history,           \* AICompanion: self._history
    session_id,        \* AICompanion: self._session_id
    personality,       \* AICompanion: self._personality
    max_context_length,\* AICompanion: self._max_context_length
    context            \* AICompanion: the context of the last /api/chat request

vars == <<events, session_start, instance, op, ret, nonce, fingerprint_hash,
          result, pc, i, round_num, last_call, session_duration,
          history, session_id, personality, max_context_length, context>>

genVars == <<events, session_start, instance>>
solveVars == <<nonce, fingerprint_hash, result, pc, i, round_num>>
companionVars == <<history, session_id, personality, max_context_length, context>>

\* What an operation gave back: None, a value, or a raised exception.
RetNone == [tag |-> "None"]
RetVal(v) == [tag |-> "value", val |-> v]
RetRaise(e) == [tag |-> "raise", exc |-> e]

\* The caller holds no record of an earlier solve_challenge call.
NoCall == [set |-> FALSE]

(***************************************************************************)
(* Python sequences                                                        *)
(***************************************************************************)
PyLen(s) == Cardinality(DOMAIN s)

PyEmpty == [k \in {} |-> 0]

\* bytearray(n): n zero bytes
ByteArray(n) == [k \in 0..(n - 1) |-> 0]

(***************************************************************************)
(* Bytes: ^ and & 0xFF                                                     *)
(***************************************************************************)
Bit(x, k) == (x \div (2 ^ k)) % 2

\* a ^ b on ints in 0..255
Xor(a, b) ==
    LET X(k) == ((Bit(a, k) + Bit(b, k)) % 2) * (2 ^ k)
    IN  X(0) + X(1) + X(2) + X(3) + X(4) + X(5) + X(6) + X(7)

\* x & 0xFF on a non-negative int
Mask8(x) == x % 256

(***************************************************************************)
(* Floats, as exact rationals <<num, den>> with den > 0, in lowest terms,  *)
(* and inf, -inf and nan                                                   *)
(***************************************************************************)
Abs(x) == IF x < 0 THEN -x ELSE x

RECURSIVE GCD(_, _)
GCD(a, b) == IF b = 0 THEN a ELSE GCD(b, a % b)

Rat(n, d) ==
    LET g == GCD(Abs(n), Abs(d))
        s == IF d < 0 THEN -1 ELSE 1
    IN  <<(s * n) \div g, (s * d) \div g>>

F(n) == <<n, 1>>

\* The floats that are no numbers: a denominator 0 marks them.
Inf    == <<1, 0>>
NegInf == <<-1, 0>>
NaN    == <<0, 0>>
IsNaN(a)    == a = NaN
IsFinite(a) == a[2] # 0
Sign(a)     == IF a[1] > 0 THEN 1 ELSE IF a[1] < 0 THEN -1 ELSE 0

\* The operations cancel common factors before they multiply, to keep the
\* intermediate integers small. On inf and nan they follow IEEE 754, as
\* Python's float operations do.
RAdd(a, b) ==
    IF IsFinite(a) /\ IsFinite(b)
    THEN LET g == GCD(a[2], b[2])
         IN  Rat(a[1] * (b[2] \div g) + b[1] * (a[2] \div g), (a[2] \div g) * b[2])
    ELSE IF IsNaN(a) \/ IsNaN(b) THEN NaN
    ELSE IF IsFinite(b) THEN a
    ELSE IF IsFinite(a) THEN b
    ELSE IF a = b THEN a ELSE NaN
RNeg(a)    == <<-a[1], a[2]>>
RAbs(a)    == <<Abs(a[1]), a[2]>>
RSub(a, b) == RAdd(a, RNeg(b))
RMul(a, b) ==
    IF IsFinite(a) /\ IsFinite(b)
    THEN LET g1 == GCD(Abs(a[1]), b[2])
             g2 == GCD(Abs(b[1]), a[2])
         IN  IF a[1] = 0 \/ b[1] = 0 THEN <<0, 1>>
             ELSE <<(a[1] \div g1) * (b[1] \div g2), (a[2] \div g2) * (b[2] \div g1)>>
    ELSE IF IsNaN(a) \/ IsNaN(b) \/ Sign(a) = 0 \/ Sign(b) = 0 THEN NaN
    ELSE <<Sign(a) * Sign(b), 0>>
\* a / b for b # 0 (a zero divisor raises ZeroDivisionError: the callers
\* below test for it before they divide)
RDiv(a, b) ==
    IF IsFinite(a) /\ IsFinite(b)
    THEN RMul(a, IF b[1] < 0 THEN <<-b[2], -b[1]>> ELSE <<b[2], b[1]>>)
    ELSE IF IsNaN(a) \/ IsNaN(b) THEN NaN
    ELSE IF IsFinite(a) THEN <<0, 1>>
    ELSE IF IsFinite(b) THEN <<Sign(a) * Sign(b), 0>>
    ELSE NaN
\* The comparisons: every comparison with nan is false.
RLt(a, b)  ==
    IF IsFinite(a) /\ IsFinite(b)
    THEN LET g == GCD(a[2], b[2])
         IN  a[1] * (b[2] \div g) < b[1] * (a[2] \div g)
    ELSE IF IsNaN(a) \/ IsNaN(b) THEN FALSE
    ELSE IF a = b THEN FALSE
    ELSE a = NegInf \/ b = Inf
REq(a, b)  == a = b /\ ~IsNaN(a)
RLe(a, b)  == RLt(a, b) \/ REq(a, b)
RGt(a, b)  == RLt(b, a)
RGe(a, b)  == RLe(b, a)
\* min(a, b) and max(a, b) keep a unless b is strictly smaller (larger)
RMin(a, b) == IF RLt(b, a) THEN b ELSE a
RMax(a, b) == IF RGt(b, a) THEN b ELSE a

\* math.sqrt on a perfect square (the sampled coordinates give no other)
Sqrt(n) == CHOOSE r \in 0..n : r * r = n

\* math.sqrt on a float >= 0: sqrt(inf) is inf, sqrt(nan) is nan
RSqrt(a) == IF IsFinite(a) THEN Rat(Sqrt(a[1]), Sqrt(a[2])) ELSE a

(***************************************************************************)
(* The event recorder: record_*, reset, _get_last_event_of_type            *)
(***************************************************************************)
RecordOps == {"record_keystroke", "record_mouse_movement", "record_scroll",
              "record_focus_change", "record_idle_period"}

BehavioralEvent(type, ts, data) ==
    [event_type |-> type, timestamp |-> ts, data |-> data]

\* A slip: the event put at the head of the list.
LogInsertFront(evs, e) == <<e>> \o evs

\* self._events.append(e)
LogAppend(evs, e) == Append(evs, e)

\* for event in reversed(self._events): the position of the first event of
\* the type met from the tail, 0 for None
RECURSIVE ScanBack(_, _, _)
ScanBack(evs, type, k) ==
    IF k < 1 THEN 0
    ELSE IF evs[k].event_type = type THEN k
    ELSE ScanBack(evs, type, k - 1)

RECURSIVE ScanForward(_, _, _)
ScanForward(evs, type, k) ==
    IF k > Len(evs) THEN 0
    ELSE IF evs[k].event_type = type THEN k
    ELSE ScanForward(evs, type, k + 1)

\* A slip: the list scanned from its head.
GetFirstEventOfType(evs, type) == ScanForward(evs, type, 1)

\* _get_last_event_of_type
GetLastEventOfType(evs, type) == ScanBack(evs, type, Len(evs))

\* lines 70-72: the interval record_keystroke stores; self._events[-1] is
\* evs[Len(evs)]
KeystrokeInterval(evs, key_down_time) ==
    IF Len(evs) > 0
    THEN key_down_time - evs[Len(evs)].timestamp
    ELSE 0

RecordKeystroke(key_down_time, key_up_time) ==
    /\ pc = "idle"
    /\ LET hold_duration == key_up_time - key_down_time
           interval == KeystrokeInterval(events, key_down_time)
       IN  events' = LogAppend(events,
               BehavioralEvent("keystroke", key_down_time,
                   [hold_duration |-> hold_duration,
                    interval |-> interval,
                    key_up_time |-> key_up_time]))
    /\ op' = "record_keystroke"
    /\ ret' = RetNone
    /\ UNCHANGED <<companionVars, session_start, instance, solveVars, last_call, session_duration>>

\* A slip: the acceleration computed whatever the velocity before was
KinematicsAlwaysAccelerating(prev, x, y, timestamp) ==
    LET dt == timestamp - prev.timestamp
    IN  IF dt > 0
        THEN LET dx == RSub(x, prev.data.x)
                 dy == RSub(y, prev.data.y)
                 velocity == RDiv(RSqrt(RAdd(RMul(dx, dx), RMul(dy, dy))), F(dt))
             IN  [velocity |-> velocity,
                  acceleration |-> RDiv(RSub(velocity, prev.data.velocity), F(dt))]
        ELSE [velocity |-> F(0), acceleration |-> F(0)]

\* lines 91-98: velocity and acceleration of a movement to (x, y) at timestamp,
\* against the mouse event prev
KinematicsAgainst(prev, x, y, timestamp) ==
    LET dt == timestamp - prev.timestamp
        still == [velocity |-> F(0), acceleration |-> F(0)]
    IN  IF dt > 0
        THEN LET dx == RSub(x, prev.data.x)
                 dy == RSub(y, prev.data.y)
                 velocity == RDiv(RSqrt(RAdd(RMul(dx, dx), RMul(dy, dy))), F(dt))
                 prev_velocity == prev.data.velocity
             IN  [velocity |-> velocity,
                  acceleration |->
                      IF RGt(prev_velocity, F(0))
                      THEN RDiv(RSub(velocity, prev_velocity), F(dt))
                      ELSE F(0)]
        ELSE still

\* lines 86-98: velocity and acceleration of a mouse movement, against the
\* event list evs
MouseKinematics(evs, x, y, timestamp) ==
    LET last_mouse == GetLastEventOfType(evs, "mouse")
    IN  IF last_mouse = 0
        THEN [velocity |-> F(0), acceleration |-> F(0)]
        ELSE KinematicsAgainst(evs[last_mouse], x, y, timestamp)

RecordMouseMovement(x, y, timestamp) ==
    /\ pc = "idle"
    /\ LET kin == MouseKinematics(events, x, y, timestamp)
       IN  events' = LogAppend(events,
               BehavioralEvent("mouse", timestamp,
                   [x |-> x, y |-> y, velocity |-> kin.velocity,
                    acceleration |-> kin.acceleration]))
    /\ op' = "record_mouse_movement"
    /\ ret' = RetNone
    /\ UNCHANGED <<companionVars, session_start, instance, solveVars, last_call, session_duration>>

RecordScroll(delta_y, timestamp) ==
    /\ pc = "idle"
    /\ events' = LogAppend(events,
           BehavioralEvent("scroll", timestamp,
               [delta_y |-> delta_y, intensity |-> RAbs(delta_y)]))
    /\ op' = "record_scroll"
    /\ ret' = RetNone
    /\ UNCHANGED <<companionVars, session_start, instance, solveVars, last_call, session_duration>>

RecordFocusChange(has_focus, timestamp) ==
    /\ pc = "idle"
    /\ events' = LogAppend(events,
           BehavioralEvent("focus", timestamp,
               [has_focus |-> IF has_focus THEN 1 ELSE 0]))
    /\ op' = "record_focus_change"
    /\ ret' = RetNone
    /\ UNCHANGED <<companionVars, session_start, instance, solveVars, last_call, session_duration>>

RecordIdlePeriod(start_time, end_time) ==
    /\ pc = "idle"
    /\ events' = LogAppend(events,
           BehavioralEvent("idle", start_time,
               [duration |-> end_time - start_time]))
    /\ op' = "record_idle_period"
    /\ ret' = RetNone
    /\ UNCHANGED <<companionVars, session_start, instance, solveVars, last_call, session_duration>>

\* reset() emptying the log and leaving the start of the session alone
ResetKeepingStart(now) ==
    /\ pc = "idle"
    /\ events' = <<>>
    /\ op' = "reset"
    /\ ret' = RetNone
    /\ UNCHANGED <<companionVars, session_start, instance, solveVars, last_call, session_duration>>

\* reset(), with now the reading of time.time() * 1000
Reset(now) ==
    /\ pc = "idle"
    /\ events' = <<>>
    /\ session_start' = now
    /\ op' = "reset"
    /\ ret' = RetNone
    /\ UNCHANGED <<companionVars, instance, solveVars, last_call, session_duration>>

\* ProofGenerator(): a new object takes the place of the one in use
MaxInstances == 2

Construct(now) ==
    /\ pc = "idle"
    /\ instance < MaxInstances
    /\ instance' = instance + 1
    /\ events' = <<>>
    /\ session_start' = now
    /\ op' = "__init__"
    /\ ret' = RetNone
    /\ UNCHANGED <<companionVars, solveVars, last_call, session_duration>>

(***************************************************************************)
(* The metrics aggregator: compute_metrics and its helpers                 *)
(***************************************************************************)
\* [e for e in self._events if e.event_type == type]
EventsOfType(evs, type) ==
    LET IsType(e) == e.event_type = type
    IN  SelectSeq(evs, IsType)

\* sum(values) over a list of rationals. The sum is exact, so the order of
\* the additions is free: the list is summed by halves, which keeps the
\* nesting of the evaluation logarithmic in its length.
RECURSIVE RSumFrom(_, _, _)
RSumFrom(values, lo, hi) ==
    IF lo > hi THEN F(0)
    ELSE IF lo = hi THEN values[lo]
    ELSE RAdd(RSumFrom(values, lo, (lo + hi) \div 2),
              RSumFrom(values, (lo + hi) \div 2 + 1, hi))

RSum(values) == RSumFrom(values, 1, Len(values))

\* [f(x) for x in xs], for the list ys of the f(x)
List(ys) == SubSeq(ys, 1, Len(ys))

\* The helpers below take as parameters the values the source binds to local
\* variables (mean, min_val, range_val, ...), so that each is computed once.
Square(x) == RMul(x, x)

\* sum((v - mean) ** 2 for v in values)
SumSquares(values, mean) ==
    RSum(List([k \in 1..Len(values) |-> Square(RSub(values[k], mean))]))

\* _compute_variance
ComputeVariance(values) ==
    IF Len(values) < 2 THEN F(0)
    ELSE RDiv(SumSquares(values, RDiv(RSum(values), F(Len(values)))),
              F(Len(values) - 1))

\* A slip: the filter "interval > 0" left out.
KeystrokeIntervalsUnfiltered(evs) ==
    LET keystrokes == EventsOfType(evs, "keystroke")
    IN  List([k \in 1..Len(keystrokes) |-> F(keystrokes[k].data.interval)])

\* lines 134-135: the intervals > 0 of the keystroke events
KeystrokeIntervals(evs) ==
    LET keystrokes == EventsOfType(evs, "keystroke")
        Positive(e) == e.data.interval > 0
        kept == SelectSeq(keystrokes, Positive)
    IN  List([k \in 1..Len(kept) |-> F(kept[k].data.interval)])

\* An entropy -sum(p * log2(p)), p = count / n, is kept exactly as the pair
\* [n, pp] with pp the product of count^count over the non-empty bins: its
\* value is log2(n^n / pp) / n.
EntropyOf(n, pp) == IF pp = n ^ n THEN [n |-> 1, pp |-> 1] ELSE [n |-> n, pp |-> pp]
\* A slip: 1.0 for 0.0 as the entropy of fewer than two values.
EntropyOne == [n |-> 2, pp |-> 1]

EntropyZero == [n |-> 1, pp |-> 1]
\* e > q / 1 for an integer q >= 0:  n^n > 2^(q n) * pp
EntropyGt(e, q) == e.n ^ e.n > (2 ^ (q * e.n)) * e.pp
EntropyIsZero(e) == e.n ^ e.n = e.pp

BinCount == 20

\* The product of count^count over the bins b of the set: the bins a value
\* fell into, the only ones with count > 0.
RECURSIVE PowerProduct(_, _)
PowerProduct(bin_of, bs) ==
    IF bs = {} THEN 1
    ELSE LET b == CHOOSE x \in bs : TRUE
             count == Cardinality({k \in 1..Len(bin_of) : bin_of[k] = b})
         IN  (count ^ count) * PowerProduct(bin_of, bs \ {b})

\* int(x) of a rational x >= 0
Trunc(x) == x[1] \div x[2]

\* min(values) / max(values) of a non-empty list: the first value, replaced
\* by each later one that is strictly smaller (larger)
RECURSIVE RMinFrom(_, _, _)
RMinFrom(values, k, best) ==
    IF k > Len(values) THEN best
    ELSE RMinFrom(values, k + 1, RMin(best, values[k]))
RECURSIVE RMaxFrom(_, _, _)
RMaxFrom(values, k, best) ==
    IF k > Len(values) THEN best
    ELSE RMaxFrom(values, k + 1, RMax(best, values[k]))
RMinOf(values) == RMinFrom(values, 2, values[1])
RMaxOf(values) == RMaxFrom(values, 2, values[1])

\* line 247: the float handed to int()
BinScaled(value, min_val, range_val) ==
    RMul(RDiv(RSub(value, min_val), range_val), F(BinCount))

\* line 247: the bin of a value
BinIndex(value, min_val, range_val) ==
    LET b == Trunc(BinScaled(value, min_val, range_val))
    IN  IF b < BinCount - 1 THEN b ELSE BinCount - 1

\* line 247: the exception the statement raises for a value, "none" if it
\* raises none: the division by a zero range, int() of nan, int() of inf
BinException(value, min_val, range_val) ==
    IF range_val = F(0) THEN "ZeroDivisionError"
    ELSE IF IsNaN(BinScaled(value, min_val, range_val)) THEN "ValueError"
    ELSE IF ~IsFinite(BinScaled(value, min_val, range_val)) THEN "OverflowError"
    ELSE "none"

\* lines 246-248: the bin of each value
BinsIn(values, min_val, range_val) ==
    List([k \in 1..Len(values) |-> BinIndex(values[k], min_val, range_val)])

\* A slip: the test max_val != min_val left out.
RangeOfUnguarded(min_val, max_val) == RSub(max_val, min_val)

\* line 243: range_val
RangeOf(min_val, max_val) ==
    IF ~REq(max_val, min_val) THEN RSub(max_val, min_val) ELSE F(1)

\* lines 250-257, from the bin of each value
EntropyOfBins(bin_of) ==
    EntropyOf(Len(bin_of), PowerProduct(bin_of, {bin_of[k] : k \in 1..Len(bin_of)}))

EntropyBetween(values, min_val, max_val) ==
    EntropyOfBins(BinsIn(values, min_val, RangeOf(min_val, max_val)))

\* _compute_entropy
ComputeEntropy(values) ==
    IF Len(values) < 2 THEN EntropyZero
    ELSE EntropyBetween(values, RMinOf(values), RMaxOf(values))

\* lines 264-271: the direction changes counted over the scroll events from k on
RECURSIVE DirectionChanges(_, _, _)
DirectionChanges(scroll_events, k, prev_direction) ==
    IF k > Len(scroll_events) THEN 0
    ELSE LET direction == IF RGt(scroll_events[k].data.delta_y, F(0)) THEN 1 ELSE -1
         IN  (IF prev_direction # 0 /\ direction # prev_direction THEN 1 ELSE 0)
             + DirectionChanges(scroll_events, k + 1, direction)

\* line 277, from direction_changes and the intensities
ScrollScore(direction_changes, intensities) ==
    RAdd(RMul(Rat(direction_changes, Len(intensities)), F(50)),
         RMin(RDiv(ComputeVariance(intensities), F(100)), F(50)))

\* A slip: 2 for 3 as the least number of scroll events.
ComputeScrollPatternFromTwo(scroll_events) ==
    IF Len(scroll_events) < 2 THEN F(0)
    ELSE ScrollScore(DirectionChanges(scroll_events, 1, 0),
                     List([k \in 1..Len(scroll_events) |->
                              scroll_events[k].data.intensity]))

\* _compute_scroll_pattern
ComputeScrollPattern(scroll_events) ==
    IF Len(scroll_events) < 3 THEN F(0)
    ELSE ScrollScore(DirectionChanges(scroll_events, 1, 0),
                     List([k \in 1..Len(scroll_events) |->
                              scroll_events[k].data.intensity]))

\* line 287: the divisor of idle_ratio
IdleDivisor(session_duration_ms) == RMax(session_duration_ms, F(1))

\* A slip of sign: the idle ratio added to 1 where it is taken from it.
IdleScoreRatioAdded(durations, session_duration_ms) ==
    LET total_idle == RSum(durations)
        idle_ratio == RDiv(total_idle, IdleDivisor(session_duration_ms))
        duration_variance == ComputeVariance(durations)
        base_score == RMul(RAdd(F(1), idle_ratio), F(70))
        variance_bonus == RMin(RDiv(duration_variance, F(10000)), F(30))
    IN  RAdd(base_score, variance_bonus)

\* lines 286-295, from the idle durations
IdleScore(durations, session_duration_ms) ==
    LET total_idle == RSum(durations)
        idle_ratio == RDiv(total_idle, IdleDivisor(session_duration_ms))
        duration_variance == ComputeVariance(durations)
        base_score == RMul(RSub(F(1), idle_ratio), F(70))
        variance_bonus == RMin(RDiv(duration_variance, F(10000)), F(30))
    IN  RAdd(base_score, variance_bonus)

\* _compute_idle_pattern
ComputeIdlePattern(idle_events, session_duration_ms) ==
    IF Len(idle_events) = 0 THEN F(100)
    ELSE IdleScore(List([k \in 1..Len(idle_events) |->
                            F(idle_events[k].data.duration)]),
                   session_duration_ms)

\* line 146: the divisor of focus_freq
FocusDivisor(session_duration_ms) ==
    RMax(RDiv(session_duration_ms, F(1000)), Rat(1, 1000))

\* The velocities compute_metrics hands to _compute_entropy (lines 138-139)
Velocities(evs) ==
    LET mouse_events == EventsOfType(evs, "mouse")
    IN  List([k \in 1..Len(mouse_events) |-> mouse_events[k].data.velocity])

\* lines 246-248: the exception of the first value that raises one
RECURSIVE BinsException(_, _, _, _)
BinsException(values, k, min_val, range_val) ==
    IF k > Len(values) THEN "none"
    ELSE IF BinException(values[k], min_val, range_val) # "none"
         THEN BinException(values[k], min_val, range_val)
    ELSE BinsException(values, k + 1, min_val, range_val)

\* The exception _compute_entropy raises, "none" if it returns
EntropyException(values) ==
    IF Len(values) < 2 THEN "none"
    ELSE BinsException(values, 1, RMinOf(values),
                       RangeOf(RMinOf(values), RMaxOf(values)))

\* The exception compute_metrics raises, "none" if it returns: that of
\* _compute_entropy (line 140), or ZeroDivisionError at line 146 or line 287
MetricsException(evs, start, now) ==
    IF EntropyException(Velocities(evs)) # "none"
    THEN EntropyException(Velocities(evs))
    ELSE IF \/ FocusDivisor(F(now - start)) = F(0)
            \/ /\ Len(EventsOfType(evs, "idle")) > 0
               /\ IdleDivisor(F(now - start)) = F(0)
    THEN "ZeroDivisionError"
    ELSE "none"

\* A slip: len(keystrokes) for len(self._events) as total_events.
MetricsCountingKeystrokes(evs, start, now) ==
    LET session_duration_ms == F(now - start)
        velocities == Velocities(evs)
        focus_events == EventsOfType(evs, "focus")
    IN  [keystroke_timing_variance |-> ComputeVariance(KeystrokeIntervals(evs)),
         mouse_movement_entropy |-> ComputeEntropy(velocities),
         scroll_pattern_score |-> ComputeScrollPattern(EventsOfType(evs, "scroll")),
         focus_switch_frequency |->
             RDiv(F(Len(focus_events)), FocusDivisor(session_duration_ms)),
         idle_pattern_score |->
             ComputeIdlePattern(EventsOfType(evs, "idle"), session_duration_ms),
         total_events |-> Len(EventsOfType(evs, "keystroke")),
         session_duration_ms |-> session_duration_ms]

\* compute_metrics, with now the reading of time.time() * 1000
Metrics(evs, start, now) ==
    LET session_duration_ms == F(now - start)
        velocities == Velocities(evs)
        focus_events == EventsOfType(evs, "focus")
    IN  [keystroke_timing_variance |-> ComputeVariance(KeystrokeIntervals(evs)),
         mouse_movement_entropy |-> ComputeEntropy(velocities),
         scroll_pattern_score |-> ComputeScrollPattern(EventsOfType(evs, "scroll")),
         focus_switch_frequency |->
             RDiv(F(Len(focus_events)), FocusDivisor(session_duration_ms)),
         idle_pattern_score |->
             ComputeIdlePattern(EventsOfType(evs, "idle"), session_duration_ms),
         total_events |-> Len(evs),
         session_duration_ms |-> session_duration_ms]

ComputeMetrics(now) ==
    /\ pc = "idle"
    /\ op' = "compute_metrics"
    /\ ret' = IF MetricsException(events, session_start, now) # "none"
              THEN RetRaise(MetricsException(events, session_start, now))
              ELSE RetVal(Metrics(events, session_start, now))
    /\ UNCHANGED <<companionVars, genVars, solveVars, last_call, session_duration>>

(***************************************************************************)
(* hashlib.sha256 (FIPS 180-4). A 32-bit word is the pair <<hi, lo>> of its *)
(* 16-bit halves, so that no intermediate value leaves the integers the    *)
(* model checker computes with.                                            *)
(***************************************************************************)
\* a & b on ints in 0..255
And(a, b) ==
    LET A(k) == (Bit(a, k) * Bit(b, k)) * (2 ^ k)
    IN  A(0) + A(1) + A(2) + A(3) + A(4) + A(5) + A(6) + A(7)

\* The byte operations as tables
Xor8 == [a \in 0..255 |-> [b \in 0..255 |-> Xor(a, b)]]
And8 == [a \in 0..255 |-> [b \in 0..255 |-> And(a, b)]]

Xor16(a, b) == Xor8[a \div 256][b \div 256] * 256 + Xor8[a % 256][b % 256]
And16(a, b) == And8[a \div 256][b \div 256] * 256 + And8[a % 256][b % 256]

WXor(x, y) == <<Xor16(x[1], y[1]), Xor16(x[2], y[2])>>
WAnd(x, y) == <<And16(x[1], y[1]), And16(x[2], y[2])>>
WNot(x)    == <<65535 - x[1], 65535 - x[2]>>
\* addition modulo 2^32
WAdd(x, y) ==
    <<(x[1] + y[1] + (x[2] + y[2]) \div 65536) % 65536, (x[2] + y[2]) % 65536>>

\* rotation and shift to the right by n bits, 0 <= n < 32
RECURSIVE Rotr(_, _)
Rotr(x, n) ==
    IF n >= 16 THEN Rotr(<<x[2], x[1]>>, n - 16)
    ELSE <<x[1] \div (2 ^ n) + (x[2] % (2 ^ n)) * (2 ^ (16 - n)),
           x[2] \div (2 ^ n) + (x[1] % (2 ^ n)) * (2 ^ (16 - n))>>
Shr(x, n) ==
    IF n >= 16 THEN <<0, x[1] \div (2 ^ (n - 16))>>
    ELSE <<x[1] \div (2 ^ n),
           x[2] \div (2 ^ n) + (x[1] % (2 ^ n)) * (2 ^ (16 - n))>>

Ch(x, y, z)  == WXor(WAnd(x, y), WAnd(WNot(x), z))
Maj(x, y, z) == WXor(WXor(WAnd(x, y), WAnd(x, z)), WAnd(y, z))
BigSigma0(x)   == WXor(WXor(Rotr(x, 2), Rotr(x, 13)), Rotr(x, 22))
BigSigma1(x)   == WXor(WXor(Rotr(x, 6), Rotr(x, 11)), Rotr(x, 25))
SmallSigma0(x) == WXor(WXor(Rotr(x, 7), Rotr(x, 18)), Shr(x, 3))
SmallSigma1(x) == WXor(WXor(Rotr(x, 17), Rotr(x, 19)), Shr(x, 10))

\* The round constants and the initial hash value
ShaK ==
    << <<17034, 12184>>, <<28983, 17553>>, <<46528, 64463>>, <<59829, 56229>>,
      <<14678, 49755>>, <<23025, 4593>>, <<37439, 33444>>, <<43804, 24277>>,
      <<55303, 43672>>, <<4739, 23297>>, <<9265, 34238>>, <<21772, 32195>>,
      <<29374, 23924>>, <<32990, 45566>>, <<39900, 1703>>, <<49563, 61812>>,
      <<58523, 27073>>, <<61374, 18310>>, <<4033, 40390>>, <<9228, 41420>>,
      <<11753, 11375>>, <<19060, 33962>>, <<23728, 43484>>, <<30457, 35034>>,
      <<38974, 20818>>, <<43057, 50797>>, <<45059, 10184>>, <<48985, 32711>>,
      <<50912, 3059>>, <<54695, 37191>>, <<1738, 25425>>, <<5161, 10599>>,
      <<10167, 2693>>, <<11803, 8504>>, <<19756, 28156>>, <<21304, 3347>>,
      <<25866, 29524>>, <<30314, 2747>>, <<33218, 51502>>, <<37490, 11397>>,
      <<41663, 59553>>, <<43034, 26187>>, <<49739, 35696>>, <<51052, 20899>>,
      <<53650, 59417>>, <<54937, 1572>>, <<62478, 13701>>, <<4202, 41072>>,
      <<6564, 49430>>, <<7735, 27656>>, <<10056, 30540>>, <<13488, 48309>>,
      <<14620, 3251>>, <<20184, 43594>>, <<23452, 51791>>, <<26670, 28659>>,
      <<29839, 33518>>, <<30885, 25455>>, <<33992, 30740>>, <<36039, 520>>,
      <<37054, 65530>>, <<42064, 27883>>, <<48889, 41975>>, <<50801, 30962>> >>

ShaH0 ==
    <<      <<27145, 58983>>, <<47975, 44677>>, <<15470, 62322>>, <<42319, 62778>>,
      <<20750, 21119>>, <<39685, 26764>>, <<8067, 55723>>, <<23520, 52505>> >>

\* The padded message: the bytes, 0x80, zeros, and the length in bits as 8
\* bytes, the most significant first
PaddedLen(n) == ((n + 8) \div 64 + 1) * 64

Padded(m, n) ==
    [k \in 0..(PaddedLen(n) - 1) |->
        IF k < n THEN m[k]
        ELSE IF k = n THEN 128
        ELSE IF k < PaddedLen(n) - 4 THEN 0
        ELSE ((8 * n) \div (256 ^ (PaddedLen(n) - 1 - k))) % 256]

\* The 16 words of block blk (from 0) of the padded message p
BlockWords(p, blk) ==
    SubSeq([t \in 1..16 |->
               <<p[64 * blk + 4 * t - 4] * 256 + p[64 * blk + 4 * t - 3],
                 p[64 * blk + 4 * t - 2] * 256 + p[64 * blk + 4 * t - 1]>>],
           1, 16)

\* The message schedule: w holds the words 1..t-1, the result the words 1..64
RECURSIVE Schedule(_, _)
Schedule(w, t) ==
    IF Len(w) = 64 THEN w
    ELSE Schedule(Append(w, WAdd(WAdd(SmallSigma1(w[t - 2]), w[t - 7]),
                                 WAdd(SmallSigma0(w[t - 15]), w[t - 16]))),
                  t + 1)

\* One round, from the working variables s = <<a, b, c, d, e, f, g, h>> and
\* the two temporaries
RoundWith(s, t1, t2) ==
    <<WAdd(t1, t2), s[1], s[2], s[3], WAdd(s[4], t1), s[5], s[6], s[7]>>

Round(s, k, w) ==
    RoundWith(s,
              WAdd(WAdd(WAdd(s[8], BigSigma1(s[5])), Ch(s[5], s[6], s[7])),
                   WAdd(k, w)),
              WAdd(BigSigma0(s[1]), Maj(s[1], s[2], s[3])))

\* The rounds t..64 on the working variables s
RECURSIVE RoundsFrom(_, _, _)
RoundsFrom(s, w, t) ==
    IF Len(s) = 8 /\ t > 64 THEN s
    ELSE RoundsFrom(Round(s, ShaK[t], w[t]), w, t + 1)

\* The hash value after one more block
Compress(h, s) == [j \in 1..8 |-> WAdd(h[j], s[j])]

CompressBlock(h, w) == Compress(h, RoundsFrom(h, w, 1))

RECURSIVE HashBlocks(_, _, _, _)
HashBlocks(h, p, blk, n_blocks) ==
    IF Len(h) = 8 /\ blk = n_blocks THEN h
    ELSE HashBlocks(SubSeq(CompressBlock(h, Schedule(BlockWords(p, blk), 17)), 1, 8),
                    p, blk + 1, n_blocks)

\* The digest: the 8 words of the hash value, the most significant byte first
DigestOf(h) ==
    [k \in 0..31 |->
        LET half == h[k \div 4 + 1][(k % 4) \div 2 + 1]
        IN  IF k % 2 = 0 THEN half \div 256 ELSE half % 256]

\* hashlib.sha256(m).digest()
Sha256(m) ==
    DigestOf(HashBlocks(ShaH0, Padded(m, PyLen(m)), 0, PaddedLen(PyLen(m)) \div 64))

(***************************************************************************)
(* struct.pack / struct.unpack with the format ">dddddId": big-endian, no  *)
(* padding. A double is the record of its IEEE 754 fields: the sign, the   *)
(* biased exponent and the 52 bits of the fraction, the most significant   *)
(* first.                                                                  *)
(***************************************************************************)
ZeroBits(n) == [k \in 1..n |-> 0]

Double(sign, exp, frac) == [sign |-> sign, exp |-> exp, frac |-> frac]

\* The largest e >= 0 with d * 2^e <= a, for a >= d > 0
RECURSIVE ExpUp(_, _, _)
ExpUp(a, d, e) == IF a \div (2 ^ (e + 1)) >= d THEN ExpUp(a, d, e + 1) ELSE e

\* The least k > 0 with a * 2^k >= d, for 0 < a < d
RECURSIVE ExpDown(_, _, _)
ExpDown(a, d, k) == IF a * (2 ^ k) >= d THEN k ELSE ExpDown(a, d, k + 1)

\* The bits of the fraction of 1 + rem / den, by long division: the result is
\* the pair of the 52 bits and of the remainder left after them
RECURSIVE FracBits(_, _, _)
FracBits(rem, den, bits) ==
    IF Len(bits) = 52 THEN <<bits, rem>>
    ELSE IF 2 * rem >= den
         THEN FracBits(2 * rem - den, den, Append(bits, 1))
         ELSE FracBits(2 * rem, den, Append(bits, 0))

\* The fraction plus one unit in the last place; all ones carry into the
\* exponent
CarriesOut(bits) == \A k \in 1..52 : bits[k] = 1

LastZero(bits) == CHOOSE k \in 1..52 : bits[k] = 0 /\ \A j \in (k + 1)..52 : bits[j] = 1

NextUp(bits, z) ==
    SubSeq([k \in 1..52 |-> IF k < z THEN bits[k] ELSE IF k = z THEN 1 ELSE 0], 1, 52)

\* Round to nearest, ties to even, from the bits and the remainder
Rounded(sign, e, bits, rem, den) ==
    IF 2 * rem > den \/ (2 * rem = den /\ bits[52] = 1)
    THEN IF CarriesOut(bits) THEN Double(sign, e + 1024, ZeroBits(52))
         ELSE Double(sign, e + 1023, NextUp(bits, LastZero(bits)))
    ELSE Double(sign, e + 1023, bits)

RoundedFrom(sign, e, division, den) ==
    Rounded(sign, e, division[1], division[2], den)

\* The double nearest to sign * num / den * 2^e, for den <= num < 2 * den
Normalized(sign, e, num, den) ==
    RoundedFrom(sign, e, FracBits(num - den, den, <<>>), den)

NormalizedUp(sign, a, d, e)   == Normalized(sign, e, a, d * (2 ^ e))
NormalizedDown(sign, a, d, k) == Normalized(sign, -k, a * (2 ^ k), d)

\* The double a float of the model stands for
ToDouble(x) ==
    IF IsNaN(x) THEN Double(0, 2047, SubSeq([k \in 1..52 |-> IF k = 1 THEN 1 ELSE 0], 1, 52))
    ELSE IF ~IsFinite(x) THEN Double(IF x[1] < 0 THEN 1 ELSE 0, 2047, ZeroBits(52))
    ELSE IF x[1] = 0 THEN Double(0, 0, ZeroBits(52))
    ELSE IF Abs(x[1]) >= x[2]
         THEN NormalizedUp(IF x[1] < 0 THEN 1 ELSE 0, Abs(x[1]), x[2],
                           ExpUp(Abs(x[1]), x[2], 0))
         ELSE NormalizedDown(IF x[1] < 0 THEN 1 ELSE 0, Abs(x[1]), x[2],
                             ExpDown(Abs(x[1]), x[2], 1))

\* The entropy log2(n^n / pp) / n as a float: q / n when n^n = 2^q * pp (the
\* logarithm of any other ratio is irrational, and not modelled)
EntropyFloat(e) ==
    Rat(CHOOSE q \in 0..(2 * e.n * e.n) : e.n ^ e.n = (2 ^ q) * e.pp, e.n)

\* "d": the 8 bytes of a double, the most significant first
DoubleBit(dbl, j) ==
    IF j = 0 THEN dbl.sign
    ELSE IF j <= 11 THEN Bit(dbl.exp, 11 - j)
    ELSE dbl.frac[j - 11]

PackDouble(dbl) ==
    [k \in 0..7 |->
        DoubleBit(dbl, 8 * k) * 128 + DoubleBit(dbl, 8 * k + 1) * 64
        + DoubleBit(dbl, 8 * k + 2) * 32 + DoubleBit(dbl, 8 * k + 3) * 16
        + DoubleBit(dbl, 8 * k + 4) * 8 + DoubleBit(dbl, 8 * k + 5) * 4
        + DoubleBit(dbl, 8 * k + 6) * 2 + DoubleBit(dbl, 8 * k + 7)]

\* "d": the double of 8 bytes
UnpackDouble(b) ==
    Double(b[0] \div 128,
           (b[0] % 128) * 16 + b[1] \div 16,
           SubSeq([k \in 1..52 |->
                      IF k <= 4 THEN Bit(b[1], 4 - k)
                      ELSE Bit(b[2 + ((k - 5) \div 8)], 7 - ((k - 5) % 8))], 1, 52))

\* "I": the 4 bytes of an unsigned int, and back
PackUInt(n) == [k \in 0..3 |-> (n \div (256 ^ (3 - k))) % 256]
UnpackUInt(b) == ((b[0] * 256 + b[1]) * 256 + b[2]) * 256 + b[3]

\* bytes a + b, and the slice b[lo : lo + n]
BytesConcat(a, b) ==
    [k \in 0..(PyLen(a) + PyLen(b) - 1) |->
        IF k < PyLen(a) THEN a[k] ELSE b[k - PyLen(a)]]
BytesSlice(b, lo, n) == [k \in 0..(n - 1) |-> b[lo + k]]

\* The format ">dddddId" and the size of each item
PackFormat == <<"d", "d", "d", "d", "d", "I", "d">>
ItemSize(c) == IF c = "d" THEN 8 ELSE 4

PackItem(c, v)   == IF c = "d" THEN PackDouble(v) ELSE PackUInt(v)
UnpackItem(c, b) == IF c = "d" THEN UnpackDouble(b) ELSE UnpackUInt(b)

\* struct.pack(format, *values)
RECURSIVE PackFrom(_, _, _, _)
PackFrom(format, values, k, buffer) ==
    IF PyLen(buffer) >= 0 /\ k > Len(format) THEN buffer
    ELSE PackFrom(format, values, k + 1,
                  BytesConcat(buffer, PackItem(format[k], values[k])))

StructPack(format, values) == PackFrom(format, values, 1, PyEmpty)

\* struct.unpack(format, buffer)
RECURSIVE UnpackFrom(_, _, _, _, _)
UnpackFrom(format, buffer, k, offset, values) ==
    IF Len(values) >= 0 /\ k > Len(format) THEN values
    ELSE UnpackFrom(format, buffer, k + 1, offset + ItemSize(format[k]),
                    Append(values,
                           UnpackItem(format[k],
                                      BytesSlice(buffer, offset, ItemSize(format[k])))))

StructUnpack(format, buffer) == UnpackFrom(format, buffer, 1, 0, <<>>)

\* the values with the entropy ahead of the variance
PackedValuesEntropyFirst(metrics) ==
    <<ToDouble(EntropyFloat(metrics.mouse_movement_entropy)),
      ToDouble(metrics.keystroke_timing_variance),
      ToDouble(metrics.scroll_pattern_score),
      ToDouble(metrics.focus_switch_frequency),
      ToDouble(metrics.idle_pattern_score),
      metrics.total_events,
      ToDouble(metrics.session_duration_ms)>>

\* lines 165-174: the values handed to struct.pack, in the order of the call
PackedValues(metrics) ==
    <<ToDouble(metrics.keystroke_timing_variance),
      ToDouble(EntropyFloat(metrics.mouse_movement_entropy)),
      ToDouble(metrics.scroll_pattern_score),
      ToDouble(metrics.focus_switch_frequency),
      ToDouble(metrics.idle_pattern_score),
      metrics.total_events,
      ToDouble(metrics.session_duration_ms)>>

\* lines 165-174: data_buffer
DataBuffer(metrics) == StructPack(PackFormat, PackedValues(metrics))

(***************************************************************************)
(* The readiness query and the event count                                 *)
(***************************************************************************)
MIN_EVENTS_REQUIRED == 50
MIN_SESSION_DURATION_MS == 5000

\* A slip: "or" for "and".
ReadyEither(n_events, duration) ==
    n_events >= MIN_EVENTS_REQUIRED \/ duration >= MIN_SESSION_DURATION_MS

\* A slip: ">" for ">=" on the number of events.
ReadyMoreThanMin(n_events, duration) ==
    n_events > MIN_EVENTS_REQUIRED /\ duration >= MIN_SESSION_DURATION_MS

\* lines 212-215, from len(self._events) and session_duration
Ready(n_events, duration) ==
    n_events >= MIN_EVENTS_REQUIRED /\ duration >= MIN_SESSION_DURATION_MS

\* is_ready starting the session over at the reading it took
IsReadyRestarting(now) ==
    /\ pc = "idle"
    /\ session_duration' = now - session_start
    /\ session_start' = now
    /\ op' = "is_ready"
    /\ ret' = RetVal(Ready(Len(events), now - session_start))
    /\ UNCHANGED <<companionVars, events, instance, solveVars, last_call>>

\* is_ready(), with now the reading of time.time() * 1000
IsReady(now) ==
    /\ pc = "idle"
    /\ session_duration' = now - session_start
    /\ op' = "is_ready"
    /\ ret' = RetVal(Ready(Len(events), now - session_start))
    /\ UNCHANGED <<companionVars, genVars, solveVars, last_call>>

\* the property event_count
EventCount ==
    /\ pc = "idle"
    /\ op' = "event_count"
    /\ ret' = RetVal(Len(events))
    /\ UNCHANGED <<companionVars, genVars, solveVars, last_call, session_duration>>

(***************************************************************************)
(* The confidence scorer: _compute_confidence                              *)
(***************************************************************************)
\* A slip: "if" for "elif" in the two tiered awards.
ComputeConfidenceBothTiers(metrics) ==
    LET score ==
              (IF metrics.total_events >= 100 THEN 20 ELSE 0)
            + (IF metrics.total_events >= 50 THEN 10 ELSE 0)
            + (IF RGe(metrics.session_duration_ms, F(30000)) THEN 20 ELSE 0)
            + (IF RGe(metrics.session_duration_ms, F(10000)) THEN 10 ELSE 0)
            + (IF RGt(metrics.keystroke_timing_variance, F(1000)) THEN 15 ELSE 0)
            + (IF EntropyGt(metrics.mouse_movement_entropy, 2) THEN 15 ELSE 0)
            + (IF RGt(metrics.scroll_pattern_score, F(30)) THEN 10 ELSE 0)
            + (IF /\ RLt(Rat(5, 100), metrics.focus_switch_frequency)
                  /\ RLt(metrics.focus_switch_frequency, F(2)) THEN 10 ELSE 0)
            + (IF RGt(metrics.idle_pattern_score, F(50)) THEN 10 ELSE 0)
    IN  IF score < 100 THEN score ELSE 100

\* A slip: "-=" for "+=" in the idle award.
ComputeConfidenceIdlePenalty(metrics) ==
    LET score ==
              (IF metrics.total_events >= 100 THEN 20
               ELSE IF metrics.total_events >= 50 THEN 10 ELSE 0)
            + (IF RGe(metrics.session_duration_ms, F(30000)) THEN 20
               ELSE IF RGe(metrics.session_duration_ms, F(10000)) THEN 10 ELSE 0)
            + (IF RGt(metrics.keystroke_timing_variance, F(1000)) THEN 15 ELSE 0)
            + (IF EntropyGt(metrics.mouse_movement_entropy, 2) THEN 15 ELSE 0)
            + (IF RGt(metrics.scroll_pattern_score, F(30)) THEN 10 ELSE 0)
            + (IF /\ RLt(Rat(5, 100), metrics.focus_switch_frequency)
                  /\ RLt(metrics.focus_switch_frequency, F(2)) THEN 10 ELSE 0)
            - (IF RGt(metrics.idle_pattern_score, F(50)) THEN 10 ELSE 0)
    IN  IF score < 100 THEN score ELSE 100

ComputeConfidence(metrics) ==
    LET score ==
              (IF metrics.total_events >= 100 THEN 20
               ELSE IF metrics.total_events >= 50 THEN 10 ELSE 0)
            + (IF RGe(metrics.session_duration_ms, F(30000)) THEN 20
               ELSE IF RGe(metrics.session_duration_ms, F(10000)) THEN 10 ELSE 0)
            + (IF RGt(metrics.keystroke_timing_variance, F(1000)) THEN 15 ELSE 0)
            + (IF EntropyGt(metrics.mouse_movement_entropy, 2) THEN 15 ELSE 0)
            + (IF RGt(metrics.scroll_pattern_score, F(30)) THEN 10 ELSE 0)
            + (IF /\ RLt(Rat(5, 100), metrics.focus_switch_frequency)
                  /\ RLt(metrics.focus_switch_frequency, F(2)) THEN 10 ELSE 0)
            + (IF RGt(metrics.idle_pattern_score, F(50)) THEN 10 ELSE 0)
    IN  IF score < 100 THEN score ELSE 100

\* line 177 of generate_fingerprint, on the metrics compute_metrics returned
ConfidenceOfMetrics ==
    /\ pc = "idle"
    /\ op = "compute_metrics"
    /\ op' = "_compute_confidence"
    /\ ret' = RetVal([metrics |-> ret.val, confidence |-> ComputeConfidence(ret.val)])
    /\ UNCHANGED <<companionVars, genVars, solveVars, last_call, session_duration>>

(***************************************************************************)
(* ProofGenerator.generate_fingerprint and generate_challenge_nonce        *)
(***************************************************************************)
\* lines 176-183: the FingerprintResult built from the metrics
FingerprintResult(metrics) ==
    [hash_bytes |-> Sha256(DataBuffer(metrics)),
     metrics    |-> metrics,
     confidence |-> ComputeConfidence(metrics)]

\* generate_fingerprint at the clock reading now; an exception of
\* compute_metrics (line 163) propagates
GenerateFingerprint(now) ==
    /\ pc = "idle"
    /\ op' = "generate_fingerprint"
    /\ ret' = IF MetricsException(events, session_start, now) # "none"
              THEN RetRaise(MetricsException(events, session_start, now))
              ELSE RetVal(FingerprintResult(Metrics(events, session_start, now)))
    /\ UNCHANGED <<companionVars, genVars, solveVars, last_call, session_duration>>

\* os.urandom(n): the next n bytes of the system's random source
Urandom(n, source) == [k \in 0..(n - 1) |-> source[k]]

\* line 187: generate_challenge_nonce
GenerateChallengeNonce(source) ==
    /\ pc = "idle"
    /\ op' = "generate_challenge_nonce"
    /\ ret' = RetVal(Urandom(32, source))
    /\ UNCHANGED <<companionVars, genVars, solveVars, last_call, session_duration>>

(***************************************************************************)
(* ProofGenerator.solve_challenge                                          *)
(***************************************************************************)
BufLen == 32
Rounds == 4

\* nonce[k] / fingerprint_hash[k]: an index outside the object raises IndexError
InRange(s, k) == k \in DOMAIN s

\* One pass of the first loop body raises IndexError when one of its four
\* subscripts is out of range.
MixRaises(n, h, k) ==
    \/ ~InRange(n, k)
    \/ ~InRange(h, k)
    \/ ~InRange(n, (k + 7) % 32)
    \/ ~InRange(h, (k + 13) % 32)

\* A slip: the number of recorded events mixed into the buffer.
MixByteSalted(n, h, k) ==
    Xor(Mask8(Xor(n[k], h[k]) + n[(k + 7) % 32] + Len(events)), h[(k + 13) % 32])

\* A slip: the mask 0x7F for 0xFF, and the rotated hash byte left out.
MixByteMask7F(n, h, k) ==
    (Xor(n[k], h[k]) + n[(k + 7) % 32]) % 128

\* A slip: the last statement of the loop body (line 199) left out.
MixByteNoFinalXor(n, h, k) ==
    Mask8(Xor(n[k], h[k]) + n[(k + 7) % 32])

\* result[k] after the three statements of the first loop body
MixByte(n, h, k) ==
    Xor(Mask8(Xor(n[k], h[k]) + n[(k + 7) % 32]), h[(k + 13) % 32])

\* A slip: the byte ahead read where the byte behind should be.
DiffuseByteAheadTwice(r, k, rnd) ==
    Mask8(r[k] + Mask8(r[(k + 1) % 32] * r[(k + 1) % 32]) + rnd)

\* A slip: the round number left out of the sum.
DiffuseByteNoRound(r, k, rnd) ==
    Mask8(r[k] + Mask8(r[(k + 31) % 32] * r[(k + 1) % 32]))

\* result[k] after the body of the inner diffusion loop
DiffuseByte(r, k, rnd) ==
    LET prev == r[(k + 31) % 32]
        nxt  == r[(k + 1) % 32]
    IN  Mask8(r[k] + Mask8(prev * nxt) + rnd)

\* The caller's record of the last returned call is kept while the next call
\* repeats its arguments or changes one bit of them, and dropped otherwise.
BitMasks == {2 ^ k : k \in 0..7}

OneBitApart(n1, h1, n2, h2) ==
    /\ DOMAIN n1 = DOMAIN n2
    /\ DOMAIN h1 = DOMAIN h2
    /\ LET dn == {k \in DOMAIN n1 : n1[k] # n2[k]}
           dh == {k \in DOMAIN h1 : h1[k] # h2[k]}
       IN  /\ Cardinality(dn) + Cardinality(dh) = 1
           /\ \A k \in dn : Xor(n1[k], n2[k]) \in BitMasks
           /\ \A k \in dh : Xor(h1[k], h2[k]) \in BitMasks

Related(c, n, h) ==
    /\ c.set
    /\ \/ (c.nonce = n /\ c.fingerprint_hash = h)
       \/ OneBitApart(c.nonce, c.fingerprint_hash, n, h)

\* line 194: the call and result = bytearray(32)
SolveChallenge(n, h) ==
    /\ pc = "idle"
    /\ nonce' = n
    /\ fingerprint_hash' = h
    /\ result' = ByteArray(BufLen)
    /\ i' = 0
    /\ round_num' = 0
    /\ pc' = "mix"
    /\ op' = "solve_challenge"
    /\ ret' = RetNone
    /\ last_call' = IF Related(last_call, n, h) THEN last_call ELSE NoCall
    /\ UNCHANGED <<companionVars, genVars, session_duration>>

\* lines 196-199: one iteration of "for i in range(32)"
SolveMixStep ==
    /\ pc = "mix"
    /\ IF MixRaises(nonce, fingerprint_hash, i)
       THEN /\ pc' = "idle"
            /\ ret' = RetRaise("IndexError")
            /\ result' = PyEmpty
            /\ i' = 0
            /\ last_call' = NoCall
       ELSE /\ result' = [result EXCEPT ![i] = MixByte(nonce, fingerprint_hash, i)]
            /\ IF i + 1 < BufLen
               THEN i' = i + 1 /\ pc' = "mix"
               ELSE i' = 0 /\ pc' = "diffuse"
            /\ UNCHANGED <<ret, last_call>>
    /\ UNCHANGED <<companionVars, genVars, session_duration, op, nonce, fingerprint_hash, round_num>>

\* lines 201-205: one iteration of the inner loop of the diffusion rounds
SolveDiffuseStep ==
    /\ pc = "diffuse"
    /\ result' = [result EXCEPT ![i] = DiffuseByte(result, i, round_num)]
    /\ IF i + 1 < BufLen
       THEN i' = i + 1 /\ round_num' = round_num /\ pc' = "diffuse"
       ELSE /\ i' = 0
            /\ IF round_num + 1 < Rounds
               THEN round_num' = round_num + 1 /\ pc' = "diffuse"
               ELSE round_num' = 0 /\ pc' = "return"
    /\ UNCHANGED <<companionVars, genVars, session_duration, op, ret, nonce, fingerprint_hash, last_call>>

\* line 207: return bytes(result)
SolveReturn ==
    /\ pc = "return"
    /\ ret' = RetVal(result)
    /\ result' = PyEmpty
    /\ pc' = "idle"
    /\ last_call' = [set |-> TRUE, nonce |-> nonce, fingerprint_hash |-> fingerprint_hash,
                     out |-> result, instance |-> instance]
    /\ UNCHANGED <<companionVars, genVars, session_duration, op, nonce, fingerprint_hash, i, round_num>>

SolveStep == SolveMixStep \/ SolveDiffuseStep \/ SolveReturn

\* solve_challenge has returned a value / has raised
Returned == op = "solve_challenge" /\ pc = "idle" /\ ret.tag = "value"
Raised   == op = "solve_challenge" /\ pc = "idle" /\ ret.tag = "raise"

(***************************************************************************)
(* Sample arguments of solve_challenge                                     *)
(***************************************************************************)
MaxSeed == 1

\* Seed 0 is the fixture of the conformance scenario: nonce = [0x00; n],
\* hash = [0, 1, 2, ...].
NonceVec(s, n) == [k \in 0..(n - 1) |-> (s * (83 * k + 197)) % 256]
HashVec(s, n)  == [k \in 0..(n - 1) |-> (k * (1 + 58 * s) + 101 * s) % 256]

ArgLens == {0, 31, 32, 33}

FlipBit(v, j, b) == [v EXCEPT ![j] = Xor(v[j], 2 ^ b)]

(***************************************************************************)
(* The AI companion: AICompanion of ai.py.  A message is its role and its  *)
(* content; every call runs to its end before the next one starts, and an  *)
(* HTTP request either answers or raises.                                  *)
(***************************************************************************)
MENTOR == "MENTOR"
EXPLORER == "EXPLORER"

\* max_context_length: int = 20
DefaultContextLength == 20

\* self._session_id before the first session
None == "None"

ChatMessage(role, content) == [role |-> role, content |-> content]

\* PERSONALITY_PROMPTS[p]
PersonalityPrompt(p) == <<p>>

\* _build_system_prompt
BuildSystemPrompt(p, topic_name) == PersonalityPrompt(p) \o <<topic_name>>

IsSystem(m) == m.role = "system"
IsNotSystem(m) == m.role # "system"

\* s[start:]
SliceFrom(s, start) ==
    LET n == Len(s)
        lo == IF start < 0
              THEN (IF n + start < 0 THEN 0 ELSE n + start)
              ELSE (IF start > n THEN n ELSE start)
    IN  SubSeq(s, lo + 1, n)

\* _get_context_window
GetContextWindow(h, max_length) ==
    IF Len(h) <= max_length THEN h
    ELSE LET system_msgs == SelectSeq(h, IsSystem)
             recent == SelectSeq(h, IsNotSystem)
             cut == max_length - Len(system_msgs)
         IN  system_msgs \o SliceFrom(recent, -cut)

\* __init__
Constructed(p, max_length) ==
    /\ history = <<>>
    /\ session_id = None
    /\ personality = p
    /\ max_context_length = max_length
    /\ context = <<>>

\* start_session: the request answers with a session id, or raises
StartSession(topic_name, answered, sid) ==
    /\ op' = "start_session"
    /\ IF answered
       THEN /\ session_id' = sid
            /\ history' = <<ChatMessage("system",
                                        BuildSystemPrompt(personality, topic_name))>>
            /\ ret' = RetVal(sid)
       ELSE /\ ret' = RetRaise("HTTPStatusError")
            /\ UNCHANGED <<session_id, history>>
    /\ UNCHANGED <<personality, max_context_length, context>>
    /\ UNCHANGED <<genVars, solveVars, last_call, session_duration>>

\* chat: the request answers with a reply, or raises
Chat(message, answered, reply) ==
    /\ op' = "chat"
    /\ IF session_id = None
       THEN /\ ret' = RetRaise("RuntimeError")
            /\ UNCHANGED <<history, context>>
       ELSE LET sent == Append(history, ChatMessage("user", <<message>>))
            IN  /\ context' = GetContextWindow(sent, max_context_length)
                /\ IF answered
                   THEN /\ history' = Append(sent, ChatMessage("assistant", <<reply>>))
                        /\ ret' = RetVal(reply)
                   ELSE /\ history' = sent
                        /\ ret' = RetRaise("HTTPStatusError")
    /\ UNCHANGED <<session_id, personality, max_context_length>>
    /\ UNCHANGED <<genVars, solveVars, last_call, session_duration>>

\* A slip: the system prompt cleared with the rest.
ClearHistoryWhole ==
    /\ op' = "clear_history"
    /\ ret' = RetNone
    /\ history' = <<>>
    /\ UNCHANGED <<session_id, personality, max_context_length, context>>
    /\ UNCHANGED <<genVars, solveVars, last_call, session_duration>>

\* clear_history
ClearHistory ==
    /\ op' = "clear_history"
    /\ ret' = RetNone
    /\ history' = SelectSeq(history, IsSystem)
    /\ UNCHANGED <<session_id, personality, max_context_length, context>>
    /\ UNCHANGED <<genVars, solveVars, last_call, session_duration>>

\* lines 231-238: the first system message gets the prompt of the personality
RECURSIVE WithPrompt(_, _, _)
WithPrompt(h, p, k) ==
    IF k > Len(h) THEN h
    ELSE IF IsSystem(h[k])
         THEN [h EXCEPT ![k] = ChatMessage("system", PersonalityPrompt(p))]
         ELSE WithPrompt(h, p, k + 1)

\* set_personality
SetPersonality(p) ==
    /\ op' = "set_personality"
    /\ ret' = RetNone
    /\ personality' = p
    /\ history' = WithPrompt(history, p, 1)
    /\ UNCHANGED <<session_id, max_context_length, context>>
    /\ UNCHANGED <<genVars, solveVars, last_call, session_duration>>

(***************************************************************************)
(* The challenge solver on its own: calls with sample arguments of several *)
(* lengths.                                                                *)
(***************************************************************************)
InitGen ==
    /\ events = <<>>
    /\ instance = 1
    /\ op = "__init__"
    /\ ret = RetNone

NoSolveCall ==
    /\ nonce = PyEmpty
    /\ fingerprint_hash = PyEmpty
    /\ result = PyEmpty
    /\ pc = "idle"
    /\ i = 0
    /\ round_num = 0
    /\ last_call = NoCall
    /\ session_duration = 0

\* no call of the solver yet, and a companion just constructed with the
\* default arguments
InitSolver == NoSolveCall /\ Constructed(MENTOR, DefaultContextLength)

InitSolve == InitGen /\ InitSolver /\ session_start = 0

CallSample ==
    \E sn \in 0..MaxSeed, sh \in 0..MaxSeed, ln \in ArgLens, lh \in ArgLens :
        SolveChallenge(NonceVec(sn, ln), HashVec(sh, lh))

NextSolve == CallSample \/ SolveMixStep \/ SolveDiffuseStep \/ SolveReturn

SpecSolve == InitSolve /\ [][NextSolve]_vars

(***************************************************************************)
(* C1: the reference algorithm of the challenge, as the specification      *)
(* states it: the initial mix, then 4 rounds over the same buffer.         *)
(***************************************************************************)
RefMix(n, h) ==
    [k \in 0..31 |->
        Xor((Xor(n[k], h[k]) + n[(k + 7) % 32]) % 256, h[(k + 13) % 32])]

\* One round: new[k] is built from new[k - 1], already written in this round
\* (old[31] for k = 0), and from old[k + 1], written in this round only for
\* k = 31, where it is new[0].
RECURSIVE RefRoundFrom(_, _, _, _)
RefRoundFrom(old, new, rnd, k) ==
    IF k = 32 THEN new
    ELSE LET prev == IF k = 0 THEN old[31] ELSE new[k - 1]
             next == IF k = 31 THEN new[0] ELSE old[k + 1]
             v    == (old[k] + ((prev * next) % 256) + rnd) % 256
         IN  IF v >= 0 THEN RefRoundFrom(old, new @@ (k :> v), rnd, k + 1)
             ELSE new

RefRound(old, rnd) == RefRoundFrom(old, PyEmpty, rnd, 0)

RefRounds(r) == RefRound(RefRound(RefRound(RefRound(r, 0), 1), 2), 3)

Reference(n, h) == RefRounds(RefMix(n, h))

\* C1: for a 32-byte nonce and a 32-byte hash, what solve_challenge returns is
\* exactly the 32 bytes of the reference algorithm.
C1_SolveMatchesReference ==
    (Returned /\ PyLen(nonce) = 32 /\ PyLen(fingerprint_hash) = 32)
        => ret.val = Reference(nonce, fingerprint_hash)

C1_Witness ==
    /\ Returned
    /\ nonce = NonceVec(1, 32)
    /\ fingerprint_hash = HashVec(1, 32)
    /\ PyLen(ret.val) = 32

\* The buffer at the start of round rnd of the reference algorithm
RECURSIVE RoundStart(_, _, _)
RoundStart(n, h, rnd) ==
    IF rnd = 0 THEN RefMix(n, h) ELSE RefRound(RoundStart(n, h, rnd - 1), rnd - 1)

\* In the inner loop at index i, the indices below i have been written in this
\* round: they hold the values the round ends with, the others the values it
\* started with.
WrittenThisRound(k) == k < i

BufferMidRound(start, end) ==
    /\ PyLen(start) = 32
    /\ PyLen(end) = 32
    /\ \A k \in 0..31 :
          result[k] = IF WrittenThisRound(k) THEN end[k] ELSE start[k]

MidRound ==
    BufferMidRound(RoundStart(nonce, fingerprint_hash, round_num),
                   RefRound(RoundStart(nonce, fingerprint_hash, round_num), round_num))

\* C23 as stated: in every diffusion round and for every index i in 0..31,
\* prev = r[(i + 31) mod 32] is the value already written in this round
\* whenever index i - 1 was processed in this round, and next =
\* r[(i + 1) mod 32] is the value the previous round (or the initial mix) left,
\* not yet written in this round.
C23_NextNeverWritten ==
    (pc = "diffuse") =>
        /\ MidRound
        /\ (i >= 1) => WrittenThisRound((i + 31) % 32)
        /\ ~WrittenThisRound((i + 1) % 32)

\* C23 as amended: the same for prev, and for next at every index i in 0..30;
\* at i = 31 next = r[0] is the value already written in this round.
C23_NextWrittenOnlyAtLastIndex ==
    (pc = "diffuse") =>
        /\ MidRound
        /\ (i >= 1) => WrittenThisRound((i + 31) % 32)
        /\ (i <= 30) => ~WrittenThisRound((i + 1) % 32)
        /\ (i = 31) => WrittenThisRound((i + 1) % 32)

\* the last index of round 2 is about to be processed, and r[0] is no longer
\* what round 1 left
C23_Witness ==
    /\ pc = "diffuse"
    /\ round_num = 2
    /\ i = 31
    /\ nonce = NonceVec(1, 32)
    /\ fingerprint_hash = HashVec(1, 32)
    /\ result[0] # RoundStart(nonce, fingerprint_hash, 2)[0]
    /\ result[0] = RoundStart(nonce, fingerprint_hash, 3)[0]

\* C3: a call whose nonce or hash is not exactly 32 bytes long ends in an
\* error and never in a returned result.
C3_BadLengthRaises ==
    (op = "solve_challenge" /\ pc = "idle"
        /\ (PyLen(nonce) # 32 \/ PyLen(fingerprint_hash) # 32))
        => ret.tag = "raise"

\* C5: with nonce = 32 zero bytes and hash = [0, 1, ..., 31], the buffer after
\* the initial mix pass, before any diffusion round, is
\* r[k] = hash[k] XOR hash[(k + 13) mod 32].
AfterMixPass == pc = "diffuse" /\ round_num = 0 /\ i = 0

C5_ZeroNonceMix ==
    (/\ AfterMixPass
     /\ nonce = [k \in 0..31 |-> 0]
     /\ fingerprint_hash = [k \in 0..31 |-> k])
        => \A k \in 0..31 :
              result[k] = Xor(fingerprint_hash[k], fingerprint_hash[(k + 13) % 32])

C5_Witness ==
    /\ AfterMixPass
    /\ nonce = [k \in 0..31 |-> 0]
    /\ fingerprint_hash = [k \in 0..31 |-> k]
    /\ result[0] = 13
    /\ result[31] = 19

(***************************************************************************)
(* The recorder and the aggregator: one generator, fed sample events.      *)
(***************************************************************************)
MaxEvents == 3

\* Sample arguments. The mouse positions are apart by 0 or 5, so that every
\* distance has an exact square root.
Times == {0, 1, 3}
Holds == {1}
Points == {<<0, 0>>, <<3, 4>>}
Deltas == {-2, 0, 3}
Instants == {1}
IdlePeriods == {<<0, 1000>>, <<0, 2000>>, <<1000, 0>>}
\* Readings of time.time() * 1000: at construction and reset, and at a query.
StartTimes == {0}
Clock == {-5000, 0, 5000}

Init == InitGen /\ InitSolver /\ session_start \in StartTimes

CanRecord == Len(events) < MaxEvents

KeystrokeEvent == CanRecord /\ \E d \in Times, h \in Holds : RecordKeystroke(d, d + h)
MouseEvent     == CanRecord /\ \E p \in Points, t \in Times :
                                  RecordMouseMovement(F(p[1]), F(p[2]), t)
ScrollEvent    == CanRecord /\ \E dy \in Deltas, t \in Instants : RecordScroll(F(dy), t)
FocusEvent     == CanRecord /\ \E b \in BOOLEAN, t \in Instants : RecordFocusChange(b, t)
IdleEvent      == CanRecord /\ \E p \in IdlePeriods : RecordIdlePeriod(p[1], p[2])
ResetCall      == \E now \in StartTimes : Reset(now)
MetricsCall    == \E now \in Clock : ComputeMetrics(now)

Next ==
    \/ KeystrokeEvent
    \/ MouseEvent
    \/ ScrollEvent
    \/ FocusEvent
    \/ IdleEvent
    \/ ResetCall
    \/ MetricsCall

Spec == Init /\ [][Next]_vars

(***************************************************************************)
(* Claims about the recorder and the aggregator                            *)
(***************************************************************************)
SetMax(S) == CHOOSE x \in S : \A y \in S : y <= x

\* The positions of the events of a type among the first n events
PositionsOfType(type, n) == {k \in 1..n : events[k].event_type = type}

\* C6: the event log is append-only within a session: a record_* call adds
\* exactly one event at the tail and leaves every earlier event and its
\* position as they were, and only reset() leaves the log shorter.
C6_AppendOnly ==
    [][/\ (op' \in RecordOps) =>
              /\ Len(events') = Len(events) + 1
              /\ SubSeq(events', 1, Len(events)) = events
       /\ (Len(events') < Len(events)) => op' = "reset"]_vars

C6_Witness ==
    /\ op \in RecordOps
    /\ Len(events) = 3
    /\ events[1].event_type = "keystroke"
    /\ events[2].event_type = "idle"
    /\ events[3].event_type = "mouse"

\* C7: record_keystroke stores interval = down - (timestamp of the most recent
\* Keystroke event of the log), or 0 when the log holds no earlier Keystroke
\* event, whatever other events lie between or before.
C7_IntervalSinceLastKeystroke ==
    op = "record_keystroke" =>
        LET n == Len(events)
            earlier == PositionsOfType("keystroke", n - 1)
        IN  events[n].data.interval =
                IF earlier = {} THEN 0
                ELSE events[n].timestamp - events[SetMax(earlier)].timestamp

\* C8: record_mouse_movement computes its deltas against the last appended
\* event of type mouse, however many events of other types follow it: never
\* an older mouse event, never an event of another type; with no mouse event
\* in the log it stores velocity 0 and acceleration 0.
C8_DeltasAgainstLastMouse ==
    op = "record_mouse_movement" =>
        LET n == Len(events)
            e == events[n]
            earlier == PositionsOfType("mouse", n - 1)
            expected ==
                IF earlier = {}
                THEN [velocity |-> F(0), acceleration |-> F(0)]
                ELSE KinematicsAgainst(events[SetMax(earlier)],
                                       e.data.x, e.data.y, e.timestamp)
        IN  /\ e.data.velocity = expected.velocity
            /\ e.data.acceleration = expected.acceleration

C8_Witness ==
    /\ op = "record_mouse_movement"
    /\ Len(events) = 3
    /\ events[1].event_type = "mouse"
    /\ events[2].event_type \notin {"mouse"}
    /\ events[2].timestamp = events[3].timestamp
    /\ events[3].data.velocity = Rat(5, 3)

\* C24: record_mouse_movement stores velocity 0 and acceleration 0 for the
\* first mouse event of the log and whenever dt = t - prev.t is not > 0; when
\* dt > 0 the velocity is sqrt(dx^2 + dy^2) / dt (the value v >= 0 with
\* v^2 * dt^2 = dx^2 + dy^2), and the acceleration is (velocity -
\* prev.velocity) / dt if prev.velocity > 0, and 0 otherwise.
C24_VelocityAndAcceleration ==
    op = "record_mouse_movement" =>
        LET n == Len(events)
            e == events[n]
            earlier == PositionsOfType("mouse", n - 1)
        IN  IF earlier = {}
            THEN e.data.velocity = F(0) /\ e.data.acceleration = F(0)
            ELSE LET prev == events[SetMax(earlier)]
                     dt == e.timestamp - prev.timestamp
                     dx == RSub(e.data.x, prev.data.x)
                     dy == RSub(e.data.y, prev.data.y)
                 IN  IF dt > 0
                     THEN /\ RGe(e.data.velocity, F(0))
                          /\ RMul(RMul(e.data.velocity, e.data.velocity), F(dt * dt))
                                 = RAdd(RMul(dx, dx), RMul(dy, dy))
                          /\ e.data.acceleration =
                                 IF RGt(prev.data.velocity, F(0))
                                 THEN RDiv(RSub(e.data.velocity, prev.data.velocity),
                                           F(dt))
                                 ELSE F(0)
                     ELSE e.data.velocity = F(0) /\ e.data.acceleration = F(0)

\* the pointer has gone out and back: the third movement is slower than the
\* second, and the acceleration negative
C24_Witness ==
    /\ op = "record_mouse_movement"
    /\ Len(events) = 3
    /\ \A k \in 1..3 : events[k].event_type = "mouse"
    /\ events[2].data.velocity = F(5)
    /\ events[2].data.acceleration = F(0)
    /\ events[3].data.velocity = Rat(5, 2)
    /\ events[3].data.acceleration = Rat(-5, 4)

\* The scroll events of the log, in order, and the pairs of consecutive ones
\* whose deltas have opposite signs
ScrollDeltas ==
    LET scrolls == EventsOfType(events, "scroll")
    IN  List([k \in 1..Len(scrolls) |-> scrolls[k].data.delta_y])

SignFlips(deltas) ==
    Cardinality({k \in 1..(Len(deltas) - 1) :
                    RLt(RMul(deltas[k], deltas[k + 1]), F(0))})

IntensityTerm(deltas) ==
    RMin(RDiv(ComputeVariance(List([k \in 1..Len(deltas) |-> RAbs(deltas[k])])),
              F(100)),
         F(50))

\* C26: with at least 3 scroll events in the log, scroll_pattern_score is
\* change_ratio * 50 plus the intensity term, where change_ratio is the
\* number of consecutive scroll events whose delta_y have opposite signs
\* divided by the number of scroll events; a sequence with no negative
\* delta_y (zeros allowed) has change_ratio 0.
C26_ChangeRatioCountsSignFlips ==
    (op = "compute_metrics" /\ ret.tag = "value" /\ Len(ScrollDeltas) >= 3) =>
        /\ ret.val.scroll_pattern_score =
               RAdd(RMul(Rat(SignFlips(ScrollDeltas), Len(ScrollDeltas)), F(50)),
                    IntensityTerm(ScrollDeltas))
        /\ (\A k \in 1..Len(ScrollDeltas) : RGe(ScrollDeltas[k], F(0))) =>
               ret.val.scroll_pattern_score = IntensityTerm(ScrollDeltas)

\* C10: with fewer than 2 keystroke events whose stored interval is > 0,
\* compute_metrics returns keystroke_timing_variance == 0, whatever else the
\* log holds.
QualifyingKeystrokes ==
    {k \in PositionsOfType("keystroke", Len(events)) : events[k].data.interval > 0}

C10_FewIntervalsNoVariance ==
    (op = "compute_metrics" /\ Cardinality(QualifyingKeystrokes) < 2)
        => ret.val.keystroke_timing_variance = F(0)

C10_Witness ==
    /\ op = "compute_metrics"
    /\ Cardinality(PositionsOfType("keystroke", Len(events))) = 2
    /\ Cardinality(PositionsOfType("scroll", Len(events))) = 1
    /\ Cardinality(QualifyingKeystrokes) = 1
    /\ ret.val.keystroke_timing_variance = F(0)

\* C11: with fewer than 2 mouse events in the log, compute_metrics returns
\* mouse_movement_entropy == 0.
C11_FewMouseEventsNoEntropy ==
    (op = "compute_metrics"
        /\ Cardinality(PositionsOfType("mouse", Len(events))) < 2)
        => ret.val.mouse_movement_entropy = [n |-> 1, pp |-> 1]

C11_Witness ==
    /\ op = "compute_metrics"
    /\ Len(events) = 3
    /\ Cardinality(PositionsOfType("mouse", Len(events))) = 1
    /\ events[2].event_type = "mouse"
    /\ ret.val.mouse_movement_entropy = [n |-> 1, pp |-> 1]

\* C12: compute_metrics returns idle_pattern_score == 100.0 exactly when the
\* log holds no idle event: 100.0 with none, and never 100.0 with one or
\* more, whatever their start and end values and the session duration.
C12_FullIdleScoreIffNoIdleEvents ==
    op = "compute_metrics" =>
        (ret.val.idle_pattern_score = F(100)
            <=> PositionsOfType("idle", Len(events)) = {})

IdleDurations ==
    LET idle_events == EventsOfType(events, "idle")
    IN  List([k \in 1..Len(idle_events) |-> F(idle_events[k].data.duration)])

NoIdlePeriodEndsEarly ==
    \A k \in 1..Len(IdleDurations) : RGe(IdleDurations[k], F(0))

IdleScoreInRange ==
    /\ RGe(ret.val.idle_pattern_score, F(0))
    /\ RLe(ret.val.idle_pattern_score, F(100))

\* C28 as stated: for every event log in which each recorded idle period has
\* end >= start, idle_pattern_score lies within [0, 100], whatever the
\* session duration and however the idle durations compare to it.
C28_IdleScoreInRange ==
    (op = "compute_metrics" /\ ret.tag = "value" /\ NoIdlePeriodEndsEarly)
        => IdleScoreInRange

\* C28 as amended: for every event log in which each recorded idle period has
\* end >= start and the idle durations add up to no more than
\* max(session_duration_ms, 1), idle_pattern_score lies within [0, 100].
C28_IdleScoreInRangeWithinSession ==
    (/\ op = "compute_metrics" /\ ret.tag = "value"
     /\ NoIdlePeriodEndsEarly
     /\ RLe(RSum(IdleDurations), IdleDivisor(ret.val.session_duration_ms)))
        => IdleScoreInRange

\* idle for 1000 ms and for 2000 ms of a session of 5000 ms: 28 for the time
\* not idle and the whole bonus of 30
C28_Witness ==
    /\ op = "compute_metrics"
    /\ ret.tag = "value"
    /\ ret.val.session_duration_ms = F(5000)
    /\ Len(IdleDurations) = 2
    /\ RSum(IdleDurations) = F(3000)
    /\ ret.val.idle_pattern_score = F(58)

\* C13: with fewer than 3 scroll events in the log, compute_metrics returns
\* scroll_pattern_score == 0.0.
C13_FewScrollEventsNoScore ==
    (op = "compute_metrics"
        /\ Cardinality(PositionsOfType("scroll", Len(events))) < 3)
        => ret.val.scroll_pattern_score = F(0)

C13_Witness ==
    /\ op = "compute_metrics"
    /\ Len(events) = 3
    /\ Cardinality(PositionsOfType("scroll", Len(events))) = 2
    /\ events[1].event_type = "scroll"
    /\ events[3].event_type = "scroll"
    /\ events[1].data.delta_y = F(-2)
    /\ events[3].data.delta_y = F(3)
    /\ ret.val.scroll_pattern_score = F(0)

\* C18: compute_metrics never fails on a division by zero or an empty
\* collection: it returns a metrics record for every log and every session
\* duration, 0 and negative included, with max(session_duration_ms / 1000,
\* 0.001) as the divisor of the focus frequency, max(session_duration_ms, 1.0)
\* as the divisor of the idle ratio and 1.0 as the histogram range of equal
\* velocities.
OnlyIdleDuration == events[SetMax(PositionsOfType("idle", Len(events)))].data.duration

C18_MetricsNeverDivideByZero ==
    op = "compute_metrics" =>
        /\ ret.tag = "value"
        /\ LET m == ret.val
               ms == m.session_duration_ms[1]
               n_focus == Cardinality(PositionsOfType("focus", Len(events)))
               n_idle == Cardinality(PositionsOfType("idle", Len(events)))
               mouse == PositionsOfType("mouse", Len(events))
           IN  /\ m.session_duration_ms[2] = 1
               /\ m.focus_switch_frequency =
                      IF ms >= 1 THEN Rat(1000 * n_focus, ms) ELSE F(1000 * n_focus)
               /\ n_idle = 1 =>
                      m.idle_pattern_score =
                          IF ms >= 1 THEN Rat(70 * (ms - OnlyIdleDuration), ms)
                          ELSE F(70 * (1 - OnlyIdleDuration))
               /\ (\A j, k \in mouse :
                       events[j].data.velocity = events[k].data.velocity)
                      => m.mouse_movement_entropy = [n |-> 1, pp |-> 1]

C18_Witness ==
    /\ op = "compute_metrics"
    /\ ret.tag = "value"
    /\ ret.val.session_duration_ms = F(-5000)
    /\ Len(events) = 3
    /\ events[1].event_type = "mouse"
    /\ events[2].event_type = "mouse"
    /\ events[3].event_type = "idle"
    /\ events[1].data.velocity = events[2].data.velocity

\* C17 as stated: metrics are recomputed from the whole log at every call:
\* total_events is the number of events in the log, and two compute_metrics
\* calls with no record_* or reset between them differ in nothing except
\* session_duration_ms.
TwoMetricsCalls ==
    /\ op = "compute_metrics" /\ ret.tag = "value"
    /\ op' = "compute_metrics" /\ ret'.tag = "value"

C17_OnlyDurationDiffers ==
    [][/\ (op' = "compute_metrics" /\ ret'.tag = "value")
              => ret'.val.total_events = Len(events')
       /\ TwoMetricsCalls =>
              [ret'.val EXCEPT !.session_duration_ms = ret.val.session_duration_ms]
                  = ret.val]_vars

\* C17 as amended: total_events is the number of events in the log, and two
\* compute_metrics calls with no record_* or reset between them differ in
\* nothing except session_duration_ms and the two metrics computed from it,
\* focus_switch_frequency and idle_pattern_score.
C17_OnlyDurationDerivedDiffer ==
    [][/\ (op' = "compute_metrics" /\ ret'.tag = "value")
              => ret'.val.total_events = Len(events')
       /\ TwoMetricsCalls =>
              [ret'.val EXCEPT
                   !.session_duration_ms = ret.val.session_duration_ms,
                   !.focus_switch_frequency = ret.val.focus_switch_frequency,
                   !.idle_pattern_score = ret.val.idle_pattern_score]
                  = ret.val]_vars

C17_Witness ==
    /\ op = "compute_metrics"
    /\ ret.tag = "value"
    /\ ret.val.session_duration_ms = F(5000)
    /\ ret.val.total_events = 3
    /\ ret.val.focus_switch_frequency = Rat(1, 5)
    /\ ret.val.idle_pattern_score = Rat(56, 1)
    /\ PositionsOfType("scroll", 3) # {}

(***************************************************************************)
(* A typing session: keystrokes at a constant spacing and with a constant  *)
(* hold, up to the number of events readiness asks for, with the queries   *)
(* and reset() at several readings of the clock.                           *)
(***************************************************************************)
MaxSessionEvents == 50

Spacings == {0, 100, 103}
SessionHolds == {40}
SessionClock == {0, 4999, 5000, 6000}
SessionResets == {0, 1000}

SessionKeystroke ==
    /\ Len(events) < MaxSessionEvents
    /\ \E spacing \in Spacings, hold \in SessionHolds :
          /\ Len(events) >= 2 =>
                 spacing = events[Len(events)].timestamp
                               - events[Len(events) - 1].timestamp
          /\ Len(events) >= 1 => hold = events[1].data.hold_duration
          /\ LET down == IF Len(events) = 0 THEN 0
                         ELSE events[Len(events)].timestamp + spacing
             IN  RecordKeystroke(down, down + hold)

SessionReady   == \E now \in SessionClock : IsReady(now)
SessionMetrics == \E now \in SessionClock : ComputeMetrics(now)
SessionCount   == EventCount
SessionReset   == \E now \in SessionResets : Reset(now)

NextSession ==
    \/ SessionKeystroke
    \/ SessionReady
    \/ SessionMetrics
    \/ SessionCount
    \/ SessionReset

SpecSession == InitSolve /\ [][NextSession]_vars

\* C14: is_ready() returns true exactly when the log holds at least 50
\* events and at least 5000 ms have passed since the session started (at
\* construction or at the last reset); otherwise it returns false.
C14_ReadyIffEnoughEventsAndTime ==
    op = "is_ready" =>
        /\ ret.val \in BOOLEAN
        /\ ret.val <=> (Len(events) >= 50 /\ session_duration >= 5000)

C14_Witness ==
    /\ op = "is_ready"
    /\ ret.val = TRUE
    /\ session_start = 1000
    /\ Len(events) = 50

\* The log of 50 keystrokes with a constant hold and a constant spacing
FiftyConstantKeystrokes ==
    /\ Len(events) = 50
    /\ \A k \in 1..50 :
          /\ events[k].event_type = "keystroke"
          /\ events[k].data.hold_duration = events[1].data.hold_duration
    /\ \A k \in 2..50 :
          events[k].timestamp - events[k - 1].timestamp
              = events[2].timestamp - events[1].timestamp

KeystrokeSpan == events[50].timestamp - events[1].timestamp

\* C16 as stated: after exactly 50 record_keystroke calls with a constant
\* hold and a constant spacing of the key-down times that spans at least
\* 5000 ms, is_ready() is true and compute_metrics returns
\* keystroke_timing_variance == 0.
C16_FiftyKeystrokesReady ==
    (FiftyConstantKeystrokes /\ KeystrokeSpan >= 5000) =>
        /\ op = "is_ready" => ret.val = TRUE
        /\ op = "compute_metrics" => ret.val.keystroke_timing_variance = F(0)

\* C16 as amended: after exactly 50 record_keystroke calls with a constant
\* hold and a constant spacing of the key-down times that spans at least
\* 5000 ms, is_ready() is true once 5000 ms have passed on the clock since the
\* session started, and compute_metrics returns keystroke_timing_variance == 0.
C16_FiftyKeystrokesReadyInTime ==
    (FiftyConstantKeystrokes /\ KeystrokeSpan >= 5000) =>
        /\ (op = "is_ready" /\ session_duration >= 5000) => ret.val = TRUE
        /\ op = "compute_metrics" => ret.val.keystroke_timing_variance = F(0)

C16_Witness ==
    /\ FiftyConstantKeystrokes
    /\ KeystrokeSpan = 5047
    /\ op = "is_ready"
    /\ session_duration = 5000
    /\ ret.val = TRUE

\* C21: reset() empties the event log and sets session_start to the reading
\* of the clock it takes, whatever the log and the start were; right after a
\* reset event_count is 0 and is_ready() is false at every reading of the
\* clock; and is_ready() is true only with at least 50 events in the log (all
\* recorded after the reset) and at least 5000 ms since session_start.
C21_ResetStartsOver ==
    [][/\ (pc = "idle") =>
              \A now \in SessionResets :
                  ~ ENABLED (/\ Reset(now)
                             /\ ~(events' = <<>> /\ session_start' = now))
       /\ (op' = "reset") => (events' = <<>> /\ session_start' \in SessionResets)
       /\ (op = "reset" /\ op' = "event_count") => ret'.val = 0
       /\ (op = "reset" /\ op' = "is_ready") => ret'.val = FALSE
       /\ (op' = "is_ready" /\ ret'.val = TRUE) =>
              (Len(events') >= 50 /\ session_duration' >= 5000)]_vars

\* is_ready() has answered false 5000 ms after a reset at 1000, with the log
\* still empty
C21_Witness ==
    /\ op = "is_ready"
    /\ ret.val = FALSE
    /\ events = <<>>
    /\ session_start = 1000
    /\ session_duration = 5000

(***************************************************************************)
(* Repeated calls of the solver on 32-byte arguments, with the generator   *)
(* changed, reset or replaced by a new object between them.                *)
(***************************************************************************)
MaxSolveEvents == 1

CanRecordBetween == Len(events) < MaxSolveEvents

CallAgain ==
    \E sn \in 0..MaxSeed, sh \in 0..MaxSeed :
        SolveChallenge(NonceVec(sn, 32), HashVec(sh, 32))

KeystrokeBetween == CanRecordBetween /\ RecordKeystroke(1, 2)
MouseBetween     == CanRecordBetween /\ RecordMouseMovement(F(3), F(4), 1)
ScrollBetween    == CanRecordBetween /\ RecordScroll(F(3), 1)
FocusBetween     == CanRecordBetween /\ RecordFocusChange(TRUE, 1)
IdleBetween      == CanRecordBetween /\ RecordIdlePeriod(1, 3)
ResetBetween     == \E now \in Clock : Reset(now)
NewGenerator     == \E now \in Clock : Construct(now)

NextRepeat ==
    \/ CallAgain
    \/ SolveMixStep
    \/ SolveDiffuseStep
    \/ SolveReturn
    \/ KeystrokeBetween
    \/ MouseBetween
    \/ ScrollBetween
    \/ FocusBetween
    \/ IdleBetween
    \/ ResetBetween
    \/ NewGenerator

SpecRepeat == InitSolve /\ [][NextRepeat]_vars

\* About to return (line 207) with the caller holding the record of an
\* earlier call on the same arguments / on arguments one bit apart
AboutToReturn == pc = "return" /\ last_call.set

SameArguments ==
    last_call.nonce = nonce /\ last_call.fingerprint_hash = fingerprint_hash

\* C2: two calls with the same (nonce, hash) return the same 32 bytes,
\* whatever was recorded or reset between them and whichever generator
\* object is used.
C2_SameArgumentsSameResult ==
    (AboutToReturn /\ SameArguments) => result = last_call.out

C2_Witness ==
    /\ AboutToReturn
    /\ SameArguments
    /\ last_call.instance # instance
    /\ Len(events) > 0
    /\ nonce = NonceVec(1, 32)

(***************************************************************************)
(* The solver on sample arguments and on every argument one bit away from  *)
(* a sample.                                                               *)
(***************************************************************************)
BasePairs == {<<NonceVec(s + 1, 32), HashVec(s, 32)>> : s \in 0..MaxSeed}

CallBase == \E p \in BasePairs : SolveChallenge(p[1], p[2])

CallFlipped ==
    /\ last_call.set
    /\ <<last_call.nonce, last_call.fingerprint_hash>> \in BasePairs
    /\ \E j \in 0..(BufLen - 1), b \in 0..7 :
          \/ SolveChallenge(FlipBit(last_call.nonce, j, b), last_call.fingerprint_hash)
          \/ SolveChallenge(last_call.nonce, FlipBit(last_call.fingerprint_hash, j, b))

NextFlip ==
    \/ CallBase
    \/ CallFlipped
    \/ SolveMixStep
    \/ SolveDiffuseStep
    \/ SolveReturn

SpecFlip == InitSolve /\ [][NextFlip]_vars

\* C4: flipping one bit of the nonce or of the hash changes the 32 bytes
\* solve_challenge returns.
C4_OneBitChangesResult ==
    (/\ AboutToReturn
     /\ OneBitApart(last_call.nonce, last_call.fingerprint_hash,
                    nonce, fingerprint_hash))
        => result # last_call.out

C4_Witness ==
    /\ AboutToReturn
    /\ last_call.fingerprint_hash = fingerprint_hash
    /\ nonce = FlipBit(last_call.nonce, 31, 7)
    /\ result # last_call.out

(***************************************************************************)
(* The confidence scorer on sample metrics, extremes included.             *)
(***************************************************************************)
Huge == 1000000

MetricSamples ==
    [keystroke_timing_variance : {F(-1), F(0), F(1000), F(1001), F(Huge)},
     mouse_movement_entropy :
         {[n |-> 1, pp |-> 2],     \* -1
          [n |-> 1, pp |-> 1],     \*  0
          [n |-> 4, pp |-> 1],     \*  2
          [n |-> 8, pp |-> 1]},    \*  3
     scroll_pattern_score : {F(-1), F(30), F(31), F(Huge)},
     focus_switch_frequency : {F(-1), Rat(5, 100), Rat(1, 10), F(2), F(Huge)},
     idle_pattern_score : {F(-Huge), F(50), F(51), F(100)},
     total_events : {-1, 0, 49, 50, 99, 100, Huge},
     session_duration_ms : {F(-5000), F(0), F(9999), F(10000), F(30000), F(Huge)}]

InitConfidence ==
    /\ InitSolver
    /\ events = <<>>
    /\ instance = 1
    /\ session_start = 0
    /\ op = "compute_metrics"
    /\ ret \in {RetVal(m) : m \in MetricSamples}

NextConfidence == ConfidenceOfMetrics

SpecConfidence == InitConfidence /\ [][NextConfidence]_vars

\* C9: the confidence is within [0, 100] for every combination of metric
\* values, negative, zero and very large ones included.
C9_ConfidenceInRange ==
    op = "_compute_confidence" =>
        (0 <= ret.val.confidence /\ ret.val.confidence <= 100)

C9_Witness ==
    /\ op = "_compute_confidence"
    /\ ret.val.confidence = 100
    /\ ret.val.metrics.total_events = Huge
    /\ ret.val.metrics.keystroke_timing_variance = F(Huge)

\* The award of a tiered metric: 10 for each of the two thresholds reached
TierAward(reached_low, reached_high) ==
    10 * Cardinality({t \in {1, 2} : IF t = 1 THEN reached_low ELSE reached_high})

FlatAward(points, earned) == IF earned THEN points ELSE 0

AwardsOf(m) ==
    <<TierAward(m.total_events >= 50, m.total_events >= 100),
      TierAward(RGe(m.session_duration_ms, F(10000)),
                RGe(m.session_duration_ms, F(30000))),
      FlatAward(15, RGt(m.keystroke_timing_variance, F(1000))),
      FlatAward(15, EntropyGt(m.mouse_movement_entropy, 2)),
      FlatAward(10, RGt(m.scroll_pattern_score, F(30))),
      FlatAward(10, RLt(Rat(1, 20), m.focus_switch_frequency)
                        /\ RLt(m.focus_switch_frequency, F(2))),
      FlatAward(10, RGt(m.idle_pattern_score, F(50)))>>

\* C25: the confidence is min(100, sum of the fixed awards): 20 for at least
\* 100 events, else 10 for at least 50; 20 for at least 30000 ms, else 10 for
\* at least 10000; 15 for a keystroke variance > 1000; 15 for a mouse entropy
\* > 2.0; 10 for a scroll score > 30; 10 for a focus frequency strictly between
\* 0.05 and 2.0; 10 for an idle score > 50. A tiered award is never 30, and
\* the result is a multiple of 5.
C25_ConfidenceIsSumOfAwards ==
    op = "_compute_confidence" =>
        LET awards == AwardsOf(ret.val.metrics)
            total  == awards[1] + awards[2] + awards[3] + awards[4]
                          + awards[5] + awards[6] + awards[7]
        IN  /\ ret.val.confidence = IF total > 100 THEN 100 ELSE total
            /\ awards[1] \in {0, 10, 20}
            /\ awards[2] \in {0, 10, 20}
            /\ ret.val.confidence % 5 = 0

\* 100 events in 30000 ms and nothing else earn 40
C25_Witness ==
    /\ op = "_compute_confidence"
    /\ ret.val.metrics.total_events = 100
    /\ ret.val.metrics.session_duration_ms = F(30000)
    /\ ret.val.metrics.keystroke_timing_variance = F(1000)
    /\ ret.val.metrics.scroll_pattern_score = F(30)
    /\ ret.val.metrics.idle_pattern_score = F(50)
    /\ ret.val.metrics.focus_switch_frequency = F(2)
    /\ ret.val.metrics.mouse_movement_entropy = [n |-> 4, pp |-> 1]
    /\ ret.val.confidence = 40

(***************************************************************************)
(* Fingerprints of short sessions. The k-th call of a session comes at     *)
(* k * k ms, so that the gaps between events differ; the scroll wheel      *)
(* turns further at every call; the pointer moves along a line of slope    *)
(* 4/3, which keeps every distance an exact square root.                   *)
(***************************************************************************)
MaxFingerprintEvents == 3

FingerprintClock == {5000}

EventTime == Len(events) * Len(events)

CanRecordForFingerprint == Len(events) < MaxFingerprintEvents

\* The entropy of three or more velocities is irrational in general, and has
\* no exact double: a session has at most two mouse events.
FewMouseEvents == Len(EventsOfType(events, "mouse")) < 2

FingerprintKeystroke ==
    CanRecordForFingerprint /\ RecordKeystroke(EventTime, EventTime + 1)
FingerprintMouse ==
    /\ CanRecordForFingerprint
    /\ FewMouseEvents
    /\ RecordMouseMovement(F(3 * Len(events)), F(4 * Len(events)), EventTime)
FingerprintScroll ==
    /\ CanRecordForFingerprint
    /\ RecordScroll(F(3 * (Len(events) + 1)), EventTime)
FingerprintFocus ==
    CanRecordForFingerprint /\ RecordFocusChange(Len(events) % 2 = 0, EventTime)
FingerprintIdle ==
    CanRecordForFingerprint /\ RecordIdlePeriod(EventTime, EventTime + 1000)
FingerprintCall == \E now \in FingerprintClock : GenerateFingerprint(now)

NextFingerprint ==
    \/ FingerprintKeystroke
    \/ FingerprintMouse
    \/ FingerprintScroll
    \/ FingerprintFocus
    \/ FingerprintIdle
    \/ FingerprintCall

SpecFingerprint == InitSolve /\ [][NextFingerprint]_vars

Fingerprinted == op = "generate_fingerprint" /\ ret.tag = "value"

\* The digest the implementation gives for the empty log 5000 ms into the
\* session (hex bce6a32c...b1a3b3bf)
EmptyLogDigest ==
    [k \in 0..31 |->
        <<188, 230, 163, 44, 223, 249, 216, 2, 177, 204, 148, 104, 218, 74, 218, 227,
          106, 178, 191, 191, 126, 7, 49, 173, 152, 241, 199, 159, 177, 163, 179, 191>>[k + 1]]

\* C19: generate_fingerprint packs the metrics into exactly 52 bytes, in the
\* order variance, entropy, scroll score, focus frequency, idle score (8-byte
\* doubles), total_events (4-byte unsigned int), session duration (8-byte
\* double), all big-endian; unpacking the buffer with the same layout gives
\* every value back bit for bit; and hash_bytes is the 32-byte SHA-256 digest
\* of that buffer.
C19_FingerprintLayoutAndHash ==
    Fingerprinted =>
        LET metrics == ret.val.metrics
            buffer  == DataBuffer(ret.val.metrics)
            fields  == StructUnpack(PackFormat, DataBuffer(ret.val.metrics))
        IN  /\ PyLen(buffer) = 52
            /\ BytesSlice(buffer, 0, 8)
                   = PackDouble(ToDouble(metrics.keystroke_timing_variance))
            /\ BytesSlice(buffer, 8, 8)
                   = PackDouble(ToDouble(EntropyFloat(metrics.mouse_movement_entropy)))
            /\ BytesSlice(buffer, 16, 8)
                   = PackDouble(ToDouble(metrics.scroll_pattern_score))
            /\ BytesSlice(buffer, 24, 8)
                   = PackDouble(ToDouble(metrics.focus_switch_frequency))
            /\ BytesSlice(buffer, 32, 8)
                   = PackDouble(ToDouble(metrics.idle_pattern_score))
            /\ \A k \in 0..3 :
                   buffer[40 + k] = (metrics.total_events \div (256 ^ (3 - k))) % 256
            /\ BytesSlice(buffer, 44, 8)
                   = PackDouble(ToDouble(metrics.session_duration_ms))
            /\ fields = PackedValues(metrics)
            /\ fields[6] = Len(events)
            /\ ret.val.hash_bytes = Sha256(buffer)
            /\ PyLen(ret.val.hash_bytes) = 32
            /\ (events = <<>> /\ metrics.session_duration_ms = F(5000))
                   => ret.val.hash_bytes = EmptyLogDigest

\* a session with keystrokes of uneven rhythm has been fingerprinted
C19_Witness ==
    /\ Fingerprinted
    /\ Len(events) = 3
    /\ RGt(ret.val.metrics.keystroke_timing_variance, F(0))
    /\ ret.val.metrics.total_events = 3
    /\ DataBuffer(ret.val.metrics)[43] = 3
    /\ ret.val.hash_bytes = Sha256(DataBuffer(ret.val.metrics))

(***************************************************************************)
(* Every operation of a generator, on short sessions: the recorders, reset *)
(* and the six queries, asked before and after the readiness thresholds.   *)
(***************************************************************************)
MaxOpsEvents == 2

\* Readings of time.time() * 1000 at a query; the session starts at 0
OpsClock == {0, 5000}

\* The x coordinates of the pointer: a float, float("inf") among them
MouseReach == {F(0), Inf}

\* What the system's random source gives next, as far as a call reads it
RandomSources == {NonceVec(1, 40), HashVec(1, 40)}

CanRecordOps == Len(events) < MaxOpsEvents

\* The log has changed since the last query
LogChanged == op \in RecordOps \cup {"__init__", "reset"}

OpsKeystroke == CanRecordOps /\ RecordKeystroke(EventTime, EventTime + 1)
OpsMouse ==
    /\ CanRecordOps
    /\ FewMouseEvents
    /\ \E x \in MouseReach : RecordMouseMovement(x, F(0), EventTime)
OpsScroll == CanRecordOps /\ RecordScroll(F(3 * (Len(events) + 1)), EventTime)
OpsFocus  == CanRecordOps /\ RecordFocusChange(Len(events) % 2 = 0, EventTime)
OpsIdle   == CanRecordOps /\ RecordIdlePeriod(EventTime, EventTime + 1000)
OpsReset  == Reset(0)
OpsMetrics == \E now \in OpsClock : ComputeMetrics(now)
\* The fingerprint depends on the log, the start and the clock only: it is
\* taken once after each change of the log
OpsFingerprint == LogChanged /\ \E now \in OpsClock : GenerateFingerprint(now)
OpsNonce == \E source \in RandomSources : GenerateChallengeNonce(source)
OpsSolve == SolveChallenge(NonceVec(1, 32), HashVec(1, 32))
OpsReady == \E now \in OpsClock : IsReady(now)
OpsCount == EventCount

NextOps ==
    \/ OpsKeystroke
    \/ OpsMouse
    \/ OpsScroll
    \/ OpsFocus
    \/ OpsIdle
    \/ OpsReset
    \/ OpsMetrics
    \/ OpsFingerprint
    \/ OpsNonce
    \/ OpsSolve
    \/ SolveMixStep
    \/ SolveDiffuseStep
    \/ SolveReturn
    \/ OpsReady
    \/ OpsCount

SpecOps == InitSolve /\ [][NextOps]_vars

QueryOps == {"compute_metrics", "generate_fingerprint", "solve_challenge",
             "generate_challenge_nonce", "is_ready", "event_count"}

\* C15: readiness is advisory: in every reachable state, ready or not,
\* compute_metrics, generate_fingerprint, generate_challenge_nonce,
\* solve_challenge, every record_* and is_ready complete normally: none of
\* them raises.
C15_EveryOperationCompletes ==
    (/\ pc = "idle"
     /\ op \in RecordOps \cup {"compute_metrics", "generate_fingerprint",
                                 "generate_challenge_nonce", "solve_challenge",
                                 "is_ready"})
        => ret.tag # "raise"

\* generate_challenge_nonce can return v in the next step
NonceIs(v) == OpsNonce /\ ret' = RetVal(v)

\* C20: a step of a query (compute_metrics, generate_fingerprint,
\* solve_challenge, generate_challenge_nonce, is_ready, event_count) leaves
\* the event log and session_start as they were; generate_challenge_nonce
\* returns 32 bytes, and which 32 bytes it can return is the same in every
\* state, whatever the log, the metrics and the hashes computed before.
C20_QueriesChangeNothing ==
    [][/\ (op' \in QueryOps) => (events' = events /\ session_start' = session_start)
       /\ (op' = "generate_challenge_nonce") =>
              /\ ret'.tag = "value"
              /\ PyLen(ret'.val) = 32
              /\ \E source \in RandomSources : ret'.val = Urandom(32, source)
       /\ (pc = "idle") =>
              \A source \in RandomSources : ENABLED NonceIs(Urandom(32, source))]_vars

\* a nonce has been drawn after a fingerprint of a non-empty log, and a
\* challenge solved, with the log still in place
C20_Witness ==
    /\ op = "generate_challenge_nonce"
    /\ ret.tag = "value"
    /\ ret.val = Urandom(32, HashVec(1, 40))
    /\ Len(events) = 2
    /\ last_call.set
    /\ session_duration = 5000

(***************************************************************************)
(* Scrolling only: every sequence of a few turns of the wheel, small,      *)
(* large, still and without bound, and the metrics of each.                *)
(***************************************************************************)
MaxScrollEvents == 3

\* delta_y is a float; float("inf") is one
Wheel == {F(-2), F(0), F(3), F(200), Inf}

ScrollTurn ==
    /\ Len(events) < MaxScrollEvents
    /\ \E dy \in Wheel : RecordScroll(dy, Len(events))
ScrollMetrics == ComputeMetrics(5000)

NextScroll == ScrollTurn \/ ScrollMetrics

SpecScroll == InitSolve /\ [][NextScroll]_vars

\* C27: scroll_pattern_score is bounded for every scroll log: it is >= 0 and
\* strictly below 100.
C27_ScrollScoreBounded ==
    (op = "compute_metrics" /\ ret.tag = "value") =>
        /\ RGe(ret.val.scroll_pattern_score, F(0))
        /\ RLt(ret.val.scroll_pattern_score, F(100))

(***************************************************************************)
(* A companion in use: sessions started and messages sent with requests    *)
(* that answer or fail, the history cleared and the personality changed,   *)
(* for several values of max_context_length.                               *)
(***************************************************************************)
MaxHistory == 5

ContextLengths == {1, 2, 3, DefaultContextLength}
Personalities == {MENTOR, EXPLORER}
SessionIds == {"s1", "s2"}
Topics == {"Solana Basics"}
Messages == {"What is a PDA?"}
Replies == {"An address"}

InitCompanion ==
    /\ InitGen /\ NoSolveCall /\ session_start = 0
    /\ \E p \in Personalities, n \in ContextLengths : Constructed(p, n)

StartSessionCall ==
    \E t \in Topics, answered \in BOOLEAN, sid \in SessionIds :
        StartSession(t, answered, sid)
ChatCall ==
    /\ Len(history) + 2 <= MaxHistory
    /\ \E m \in Messages, answered \in BOOLEAN, r \in Replies :
           Chat(m, answered, r)
ClearHistoryCall == ClearHistory
SetPersonalityCall == \E p \in Personalities : SetPersonality(p)

NextCompanion ==
    \/ StartSessionCall
    \/ ChatCall
    \/ ClearHistoryCall
    \/ SetPersonalityCall

SpecCompanion == InitCompanion /\ [][NextCompanion]_vars

RECURSIVE SystemMessagesOf(_)
SystemMessagesOf(h) ==
    IF h = <<>> THEN <<>>
    ELSE IF Head(h).role = "system"
         THEN <<Head(h)>> \o SystemMessagesOf(Tail(h))
         ELSE SystemMessagesOf(Tail(h))

\* C22: clear_history keeps only the system prompt: afterwards the history
\* consists of exactly the system-role messages that were in it before, in
\* their original order, with every user and assistant message removed, and
\* the session id and the personality are unchanged.
C22_ClearHistoryKeepsSystemPrompt ==
    [][op' = "clear_history" =>
           /\ history' = SystemMessagesOf(history)
           /\ \A k \in 1..Len(history') : history'[k].role = "system"
           /\ session_id' = session_id
           /\ personality' = personality]_vars

\* a history cleared after a conversation: the last request carried a user
\* message, and the system prompt alone is left
C22_Witness ==
    /\ op = "clear_history"
    /\ session_id = "s2"
    /\ personality = EXPLORER
    /\ Len(history) = 1
    /\ history[1].role = "system"
    /\ \E k \in 1..Len(context) : context[k].role = "user"

\* the history as it was when the last chat request was sent
HistorySent == IF ret.tag = "value" THEN SubSeq(history, 1, Len(history) - 1)
               ELSE history

IsSuffix(t, s) ==
    /\ Len(t) <= Len(s)
    /\ t = SubSeq(s, Len(s) - Len(t) + 1, Len(s))

\* C29: the context list that chat sends never contains more than
\* max_context_length messages, and when the history is longer than
\* max_context_length it consists of the system messages followed by the
\* most recent non-system messages.
C29_ContextWithinMaximum ==
    /\ Len(context) <= max_context_length
    /\ (op = "chat" /\ ret # RetRaise("RuntimeError")
            /\ Len(HistorySent) > max_context_length) =>
           LET system_msgs == SystemMessagesOf(HistorySent)
           IN  /\ Len(context) >= Len(system_msgs)
               /\ SubSeq(context, 1, Len(system_msgs)) = system_msgs
               /\ IsSuffix(SubSeq(context, Len(system_msgs) + 1, Len(context)),
                           SelectSeq(HistorySent, IsNotSystem))

Paired(h) ==
    /\ Len(h) % 2 = 1
    /\ h[1].role = "system"
    /\ \A k \in 2..Len(h) :
           h[k].role = IF k % 2 = 0 THEN "user" ELSE "assistant"

\* C30: after any sequence of start_session and chat calls whose requests
\* succeed or fail, the history is the system prompt followed by complete
\* user/assistant pairs: a chat call that raises leaves the history exactly
\* as it was before the call.
C30_FailedChatLeavesHistory ==
    [][/\ (op' \in {"start_session", "chat"} /\ history' # <<>>)
              => Paired(history')
       /\ (op' = "chat" /\ ret'.tag = "raise") => history' = history]_vars
====
